---- MODULE Spec2Model ----
(***************************************************************************)
(* Web2PWA (PWA Converter v2.0.1): the service-worker generator of         *)
(* src/app.js, the run-time behaviour of the worker script it emits, and   *)
(* the folder-upload session of the PWAConverter controller.               *)
(*                                                                         *)
(* Text is modelled as a sequence of tokens: a template literal            *)
(* `${a}${b}` is the concatenation a \o b.                                 *)
(***************************************************************************)
EXTENDS Integers, Sequences, FiniteSets, TLC

VARIABLES
    \* ---- generateServiceWorker as a pure function (SpecGen)
    genConfig,      \* this.config, as collected by generatePWA
    genFiles,       \* this.files.allFiles
    genManifest,    \* <<>> before generation, <<manifest object>> after
    genSW,          \* <<>> before generation, <<emitted script>> after
    genClick,       \* <<>>, or <<what the notificationclick handler did on a click>>
    \* ---- the emitted worker at run time (SpecSW, SpecSWFair)
    sw,                         \* the emitted script the browser runs
    browserRejectsDuplicates,   \* platform: Cache.addAll rejects a list with a repeated URL
    quotaExceeded,              \* platform: cache writes reject (QuotaExceededError)
    caches,                     \* CacheStorage of the origin: cache name -> set of entries
    swState,                    \* lifecycle state of the registration's worker
    installPc,                  \* position in the install handler's promise chain
    installPromise,             \* state of the promise given to install's waitUntil
    precacheFailed,             \* history: why cache.addAll rejected, "no" while it has not
    pendingDeletes,             \* activate: caches.delete promises not yet resolved
    swLog,                      \* history: order of deletions and clients.claim
    ev,                         \* the fetch event being handled
    pendingPuts,                \* per URL, the background caches.open().then(put) chains not yet run
    unhandled,                  \* promises that rejected with no handler attached
    \* ---- the PWAConverter session in the page (Spec)
    files,          \* this.files
    form,           \* values of the form fields folder-name, app-id, start-url, scope
    userModified,   \* fields whose dataset.userModified is set
    nextDisabled,   \* document.getElementById('next-to-config').disabled
    section,        \* the card that is active
    folderStatus,   \* class of the folder-status element
    uploads,        \* the handleFolderUpload runs of the session, in start order
    iconRuns,       \* the handleIconUpload runs of the session, in start order
    \* ---- injectPWACode as a pure function (SpecInject)
    injDoc,         \* the text of index.html that was ingested
    injOut,         \* the outputs of successive applications, the first on injDoc
    \* ---- generation and packaging in the page (SpecPWA)
    thisConfig,     \* this.config
    generatedFiles, \* this.generatedFiles
    pwaRuns,        \* the generatePWA runs of the session, in start order
    loading,        \* the loading overlay is displayed
    archive,        \* <<>> before a download, <<the zip built by downloadAll>> after
    compressing     \* the zip.generateAsync promises of downloadAll not yet settled

genVars == <<genConfig, genFiles, genManifest, genSW, genClick>>
swVars == <<sw, browserRejectsDuplicates, quotaExceeded, caches, swState, installPc,
            installPromise, precacheFailed, pendingDeletes, swLog, ev, pendingPuts,
            unhandled>>
appVars == <<files, form, userModified, nextDisabled, section, folderStatus, uploads,
             iconRuns>>
injVars == <<injDoc, injOut>>
pwaVars == <<thisConfig, generatedFiles, pwaRuns, loading, archive, compressing>>
vars == <<genVars, swVars, appVars, injVars, pwaVars>>

\* ------------------------------------------------------------------------
\* Bounds of the model
\* ------------------------------------------------------------------------

\* longest ingested file list handed to the generator
MaxGenFiles == 2

\* most files in one uploaded folder
MaxFiles == 2

\* most folder uploads in one session
MaxUploads == 2

\* applications of injectPWACode to one document
MaxInjections == 2

\* generatePWA runs in one session
MaxPwaRuns == 2

\* handleIconUpload runs in one session
MaxIconUploads == 2

\* background cache writes of one URL outstanding at one time
MaxPendingPuts == 2

\* downloadAll runs whose archive is being compressed at one time
MaxDownloads == 2

\* operations with an await one generation session starts, the first folder upload
\* and the first icon upload included
MaxOperations == 4

\* generatePWA runs started before a reset
MaxRunsBeforeReset == 1

\* ------------------------------------------------------------------------
\* Helpers on token sequences
\* ------------------------------------------------------------------------

Range(s) == {s[i] : i \in DOMAIN s}

HasDuplicates(s) == \E i, j \in DOMAIN s : i # j /\ s[i] = s[j]

SeqsUpTo(S, n) == UNION {[1..k -> S] : k \in 0..n}

\* ------------------------------------------------------------------------
\* Service-worker emitter
\* ------------------------------------------------------------------------

StrategyNames == {"cache-first", "network-first", "stale-while-revalidate"}

\* The three strategy templates.  A template is named by the strategy it
\* implements and carries the one generation-time choice spliced into it:
\* whether the offline-fallback lines are present.
generateCacheFirstStrategy(config) ==
    [name |-> "cache-first", offline |-> config.enableOffline]

generateNetworkFirstStrategy(config) ==
    [name |-> "network-first", offline |-> config.enableOffline]

generateStaleWhileRevalidateStrategy(config) ==
    [name |-> "stale-while-revalidate", offline |-> config.enableOffline]

NoBody == [name |-> "fixed", offline |-> FALSE]

generateNotificationHandlers(config) ==
    << [event |-> "push", body |-> NoBody],
       [event |-> "notificationclick", body |-> NoBody] >>

\* JSON.stringify(urlsToCache) writes an element that is undefined as null, and a
\* string as it is: the first element is this.config.startUrl itself, the others are
\* template literals, in which an undefined startUrl prints as 'undefined'
Stringified(value) == IF value = <<"undefined">> THEN <<"null">> ELSE value

\* mutant: the generic file loop skips the root document the list already names
BuildUrlsToCache_SkipRoot(config, allFiles) ==
    << Stringified(config.startUrl),
       config.startUrl \o <<"index.html">>,
       config.startUrl \o <<"manifest.json">> >>
    \o SelectSeq([i \in 1..Len(allFiles) |-> config.startUrl \o allFiles[i].path],
                 LAMBDA u : u # config.startUrl \o <<"index.html">>)
    \o (IF config.enableOffline
        THEN << config.startUrl \o <<"offline.html">> >>
        ELSE << >>)

\* const urlsToCache = [...] as built before the template is rendered
BuildUrlsToCache(config, allFiles) ==
    << Stringified(config.startUrl),
       config.startUrl \o <<"index.html">>,
       config.startUrl \o <<"manifest.json">> >>
    \o [i \in 1..Len(allFiles) |-> config.startUrl \o allFiles[i].path]
    \o (IF config.enableOffline
        THEN << config.startUrl \o <<"offline.html">> >>
        ELSE << >>)

\* mutant: the first rendered template is spliced in whatever the selection
SelectStrategy_First(config) == generateCacheFirstStrategy(config)

\* cacheStrategies[this.config.cacheStrategy]: all three are rendered, one is spliced in
SelectStrategy(config) ==
    LET cacheStrategies ==
            [s \in StrategyNames |->
                CASE s = "cache-first" -> generateCacheFirstStrategy(config)
                  [] s = "network-first" -> generateNetworkFirstStrategy(config)
                  [] OTHER -> generateStaleWhileRevalidateStrategy(config)]
    IN  IF config.cacheStrategy \in StrategyNames
        THEN cacheStrategies[config.cacheStrategy]
        ELSE [name |-> "undefined", offline |-> FALSE]

\* the addEventListener blocks of the emitted text, in text order
EmitListeners(config) ==
    << [event |-> "install", body |-> NoBody],
       [event |-> "activate", body |-> NoBody],
       [event |-> "fetch", body |-> SelectStrategy(config)] >>
    \o (IF config.enableNotifications
        THEN generateNotificationHandlers(config)
        ELSE << >>)
    \o << [event |-> "sync", body |-> NoBody] >>

generateServiceWorker(config, allFiles) ==
    [ CACHE_NAME  |-> config.folderName \o <<"-v1">>,
      OFFLINE_URL |-> IF config.enableOffline
                      THEN config.startUrl \o <<"offline.html">>
                      ELSE << >>,
      urlsToCache |-> BuildUrlsToCache(config, allFiles),
      listeners   |-> EmitListeners(config) ]

\* ---- manifest emitter
\* const sizes = [72, 96, 128, 144, 152, 192, 384, 512]
IconSizes == << 72, 96, 128, 144, 152, 192, 384, 512 >>

\* mutant: only the icons above 192 are declared maskable
IconPurpose_Above192(size) == IF size > 192 THEN <<"any", "maskable">> ELSE <<"any">>

\* purpose: size >= 192 ? 'any maskable' : 'any', as the list of its words
IconPurpose(size) == IF size >= 192 THEN <<"any", "maskable">> ELSE <<"any">>

\* the object pushed to manifest.icons for one size
IconEntry(size) ==
    [ src |-> <<"icons/icon-", size, "x", size, ".png">>,
      sizes |-> <<size, "x", size>>,
      type |-> "image/png",
      purpose |-> IconPurpose(size) ]

\* generateManifest(): the object that is serialised (the fields display, orientation,
\* description and the two colours are copied from the configuration like name)
generateManifest(config) ==
    [ id |-> config.appId,
      name |-> config.name,
      start_url |-> config.startUrl,
      scope |-> config.scope,
      icons |-> [i \in DOMAIN IconSizes |-> IconEntry(IconSizes[i])],
      categories |-> <<"utilities", "productivity">> ]

\* ---- inputs of the generator
GenPaths == { <<"index.html">>, <<"offline.html">>, <<"js/", "app.js">> }

GenFileLists == SeqsUpTo([path : GenPaths], MaxGenFiles)

GenConfigs ==
    [ name : { <<"My App">> },
      appId : { <<"app", "-id">> },
      folderName : { <<"app">> },
      startUrl : { <<"/app/">>, <<"/">> },
      scope : { <<"/app/">>, <<"/">> },
      cacheStrategy : StrategyNames,
      enableOffline : BOOLEAN,
      enableNotifications : BOOLEAN ]

IdleConfig ==
    [ name |-> <<"My App">>, appId |-> <<"app", "-id">>,
      folderName |-> <<"app">>, startUrl |-> <<"/app/">>, scope |-> <<"/app/">>,
      cacheStrategy |-> "cache-first", enableOffline |-> FALSE,
      enableNotifications |-> FALSE ]

GenInit ==
    /\ genConfig \in GenConfigs
    /\ genFiles \in GenFileLists
    /\ genManifest = << >>
    /\ genSW = << >>
    /\ genClick = << >>

GenIdle ==
    /\ genConfig = IdleConfig
    /\ genFiles = << >>
    /\ genManifest = << >>
    /\ genSW = << >>
    /\ genClick = << >>

\* this.generatedFiles.manifest = this.generateManifest()
GenerateManifestStep ==
    /\ genManifest = << >>
    /\ genManifest' = << generateManifest(genConfig) >>
    /\ UNCHANGED <<genConfig, genFiles, genSW, genClick>>

\* this.generatedFiles.serviceWorker = this.generateServiceWorker()
GenerateServiceWorkerStep ==
    /\ genManifest # << >>
    /\ genSW = << >>
    /\ genSW' = << generateServiceWorker(genConfig, genFiles) >>
    /\ UNCHANGED <<genConfig, genFiles, genManifest, genClick>>

\* ---- the emitted notification handlers at run time
\* event.action of a notificationclick: one of the two actions the push handler
\* declares, another one, or '' for a click on the notification itself
ClickActions == { "open", "close", "later", "" }

\* mutant: a click on the notification itself opens nothing
OnNotificationClick_OpenOnly(config, action) ==
    [ action |-> action, closed |-> TRUE,
      opened |-> IF action = "open" THEN << config.startUrl >> ELSE << >> ]

\* the notificationclick listener: event.notification.close(), then
\* clients.openWindow(startUrl) if (event.action === 'open' || !event.action)
OnNotificationClick(config, action) ==
    [ action |-> action, closed |-> TRUE,
      opened |-> IF action = "open" \/ action = "" THEN << config.startUrl >> ELSE << >> ]

\* the events the emitted text registers a listener for, in text order
RegisteredEvents(worker) == [i \in DOMAIN worker.listeners |-> worker.listeners[i].event]

\* a notification of the generated app is clicked
NotificationClick(action) ==
    /\ genSW # << >>
    /\ \E i \in DOMAIN genSW[1].listeners : genSW[1].listeners[i].event = "notificationclick"
    /\ genClick' = << OnNotificationClick(genConfig, action) >>
    /\ UNCHANGED <<genConfig, genFiles, genManifest, genSW>>

\* the generator applied to every configuration, for one ingested index.html
NotifyInit ==
    /\ genConfig \in GenConfigs
    /\ genFiles = << [path |-> <<"index.html">>] >>
    /\ genManifest = << >>
    /\ genSW = << >>
    /\ genClick = << >>

NotifyNext ==
    \/ GenerateManifestStep /\ UNCHANGED <<swVars, appVars, injVars, pwaVars>>
    \/ GenerateServiceWorkerStep /\ UNCHANGED <<swVars, appVars, injVars, pwaVars>>
    \/ \E action \in ClickActions :
            NotificationClick(action) /\ UNCHANGED <<swVars, appVars, injVars, pwaVars>>

GenNext ==
    \/ GenerateManifestStep /\ UNCHANGED <<swVars, appVars, injVars, pwaVars>>
    \/ GenerateServiceWorkerStep /\ UNCHANGED <<swVars, appVars, injVars, pwaVars>>

\* ------------------------------------------------------------------------
\* The emitted worker at run time
\* ------------------------------------------------------------------------

\* the folder the worker under study was generated from
SwFiles == << [path |-> <<"index.html">>] >>

SwConfigs ==
    [ folderName : { <<"app">> },
      startUrl : { <<"/app/">> },
      cacheStrategy : StrategyNames,
      enableOffline : BOOLEAN,
      enableNotifications : { FALSE } ]

\* caches another deployment left on the origin: an earlier version, another app
OldCacheNames == { <<"app", "-v0">>, <<"other", "-v1">> }

\* A cache entry is the request URL and where the stored response came from.
Entry(url, src) == [url |-> url, src |-> src]

OldEntries == { Entry(<<"/old/", "index.html">>, "old") }

\* the origin is either fresh or holds both
InitialCacheStorages ==
    { [n \in names |-> OldEntries] : names \in { {}, OldCacheNames } }

\* URLs the controlled pages request: one of the precache list, one outside it
ReqUrls == { <<"/app/", "index.html">>, <<"/app/", "api">> }

RequestKinds ==
    { [method |-> "GET", mode |-> "navigate", acceptsHtml |-> TRUE],
      [method |-> "GET", mode |-> "cors", acceptsHtml |-> TRUE],
      [method |-> "GET", mode |-> "cors", acceptsHtml |-> FALSE],
      [method |-> "POST", mode |-> "navigate", acceptsHtml |-> TRUE],
      [method |-> "POST", mode |-> "cors", acceptsHtml |-> FALSE] }

\* what fetch(event.request) settles with: status-type of a response, or a rejection
NetOutcomes == { "200-basic", "200-cors", "404-basic", "0-opaque", "failed" }

Status(o) ==
    CASE o \in {"200-basic", "200-cors"} -> 200
      [] o = "404-basic" -> 404
      [] OTHER -> 0

Type(o) ==
    CASE o \in {"200-basic", "404-basic"} -> "basic"
      [] o = "200-cors" -> "cors"
      [] OTHER -> "opaque"

\* ---- reading the emitted script
CACHE_NAME == sw.CACHE_NAME

OFFLINE_URL == sw.OFFLINE_URL

FetchListeners == { i \in DOMAIN sw.listeners : sw.listeners[i].event = "fetch" }

\* the body of the fetch listener the browser dispatches to
FetchBody == sw.listeners[CHOOSE i \in FetchListeners : TRUE].body

\* ---- CacheStorage
CacheNames == DOMAIN caches

\* caches.open(name): the cache is created when it does not exist
CachesOpen(c, name) ==
    [n \in DOMAIN c \cup {name} |-> IF n \in DOMAIN c THEN c[n] ELSE {}]

\* caches.delete(name)
CachesDelete(c, name) == [n \in DOMAIN c \ {name} |-> c[n]]

\* cache.put(url, response) on the open cache `name`: replaces the entry of that URL
CachePut(c, name, url, src) ==
    [c EXCEPT ![name] = {e \in @ : e.url # url} \cup {Entry(url, src)}]

\* cache.addAll(urls) when every fetch succeeded: one put per URL
CacheAddAll(c, name, urls) ==
    [c EXCEPT ![name] = {e \in @ : e.url \notin Range(urls)}
                        \cup {Entry(u, "precache") : u \in Range(urls)}]

\* caches.match(url): looks in every cache of the origin
CachesHas(url) == \E n \in DOMAIN caches : \E e \in caches[n] : e.url = url

CachesMatch(url) ==
    IF CachesHas(url)
    THEN [kind |-> "cached", of |-> url]
    ELSE [kind |-> "undefined", of |-> url]

NetworkResponse(o) == [kind |-> "network", of |-> <<o>>]

Rejected == [kind |-> "rejected", of |-> << >>]

Pending == [kind |-> "pending", of |-> << >>]

\* the handler returned before respondWith: the browser handles the request itself
NotIntercepted == [kind |-> "default", of |-> << >>]

\* function isNavigationRequest(request)
isNavigationRequest(request) ==
    \/ request.mode = "navigate"
    \/ (request.method = "GET" /\ request.acceptsHtml)

\* mutant: the method guard is missing from the template
PassesMethodGuard_Missing(request) == TRUE

\* if (event.request.method !== 'GET') return;   (first lines of every template)
PassesMethodGuard(request) == request.method = "GET"

\* cache-first: if (!response || response.status !== 200 || response.type !== 'basic') return response;
CacheFirstQualifies(o) == Status(o) = 200 /\ Type(o) = "basic"

\* network-first, stale-while-revalidate: if (response.status === 200)
Status200Qualifies(o) == Status(o) = 200

\* no background write is outstanding
NoPuts == [url \in ReqUrls |-> 0]

\* the catch handler of the network fetch: with the spliced offline lines a navigation
\* request starts the asynchronous caches.match(OFFLINE_URL) and the chain waits for it;
\* otherwise throw error rejects the chain.  What respondWith was given changes only
\* when it is still this chain.
OfflineFallback(e) ==
    IF FetchBody.offline /\ isNavigationRequest(e.req)
    THEN [e EXCEPT !.pc = "offline-lookup"]
    ELSE [e EXCEPT !.resp = IF @ = Pending THEN Rejected ELSE @, !.pc = "done"]

\* the chain of the catch handler ends rejected: no offline lookup was started
Throws(e) == ~(FetchBody.offline /\ isNavigationRequest(e.req))

\* caches.match(OFFLINE_URL) resolved with `found`: the value goes to respondWith when
\* the chain is still what it was given
AfterOfflineLookup(e, found) ==
    [e EXCEPT !.resp = IF @ = Pending THEN found ELSE @, !.pc = "done"]

IdleEvent ==
    [ req |-> [url |-> << >>, method |-> "GET", mode |-> "cors", acceptsHtml |-> FALSE],
      pc |-> "idle", ops |-> {}, hit |-> "unknown", net |-> "none", resp |-> Pending ]

SwInit ==
    /\ \E cfg \in SwConfigs : sw = generateServiceWorker(cfg, SwFiles)
    /\ browserRejectsDuplicates \in BOOLEAN
    /\ quotaExceeded \in BOOLEAN
    /\ caches \in InitialCacheStorages
    /\ swState = "parsed"
    /\ installPc = "idle"
    /\ installPromise = "none"
    /\ precacheFailed = "no"
    /\ pendingDeletes = {}
    /\ swLog = << >>
    /\ ev = IdleEvent
    /\ pendingPuts = NoPuts
    /\ unhandled = {}

SwIdle ==
    /\ sw = generateServiceWorker(IdleConfig, SwFiles)
    /\ browserRejectsDuplicates = FALSE
    /\ quotaExceeded = FALSE
    /\ caches = [n \in {} |-> {}]
    /\ swState = "parsed"
    /\ installPc = "idle"
    /\ installPromise = "none"
    /\ precacheFailed = "no"
    /\ pendingDeletes = {}
    /\ swLog = << >>
    /\ ev = IdleEvent
    /\ pendingPuts = NoPuts
    /\ unhandled = {}

\* ---- install
\* the browser dispatches install; the handler calls event.waitUntil(caches.open(...)...)
InstallEvent ==
    /\ swState = "parsed"
    /\ swState' = "installing"
    /\ installPc' = "open"
    /\ installPromise' = "pending"
    /\ UNCHANGED <<sw, browserRejectsDuplicates, quotaExceeded, caches, precacheFailed,
                   pendingDeletes, swLog, ev, pendingPuts, unhandled>>

\* caches.open(CACHE_NAME) resolves
InstallOpenCache ==
    /\ installPc = "open"
    /\ caches' = CachesOpen(caches, CACHE_NAME)
    /\ installPc' = "addAll"
    /\ UNCHANGED <<sw, browserRejectsDuplicates, quotaExceeded, swState, installPromise,
                   precacheFailed, pendingDeletes, swLog, ev, pendingPuts, unhandled>>

\* cache.addAll(urls) is all or nothing: it rejects when any URL cannot be fetched
\* (`bad`), when the store refuses the write, or, in a browser that enforces it, when
\* the list names a URL twice
AddAllRejects(urls, bad) ==
    \/ bad # {}
    \/ quotaExceeded
    \/ (browserRejectsDuplicates /\ HasDuplicates(urls))

\* cache.addAll(urlsToCache) settles; a rejection skips the .then and lands in the .catch
InstallAddAll ==
    /\ installPc = "addAll"
    /\ \E bad \in SUBSET Range(sw.urlsToCache) :
          IF AddAllRejects(sw.urlsToCache, bad)
          THEN /\ precacheFailed' = IF bad # {} THEN "fetch" ELSE "store"
               /\ installPc' = "catch"
               /\ UNCHANGED caches
          ELSE /\ caches' = CacheAddAll(caches, CACHE_NAME, sw.urlsToCache)
               /\ installPc' = "skipWaiting"
               /\ UNCHANGED precacheFailed
    /\ UNCHANGED <<sw, browserRejectsDuplicates, quotaExceeded, swState, installPromise,
                   pendingDeletes, swLog, ev, pendingPuts, unhandled>>

\* .then(() => self.skipWaiting())
InstallSkipWaiting ==
    /\ installPc = "skipWaiting"
    /\ installPc' = "done"
    /\ installPromise' = "fulfilled"
    /\ UNCHANGED <<sw, browserRejectsDuplicates, quotaExceeded, caches, swState,
                   precacheFailed, pendingDeletes, swLog, ev, pendingPuts, unhandled>>

\* .catch(error => { console.error(...) }): the handler returns undefined, so the
\* chain handed to waitUntil is fulfilled
InstallCatch ==
    /\ installPc = "catch"
    /\ installPc' = "done"
    /\ installPromise' = "fulfilled"
    /\ UNCHANGED <<sw, browserRejectsDuplicates, quotaExceeded, caches, swState,
                   precacheFailed, pendingDeletes, swLog, ev, pendingPuts, unhandled>>

\* the browser's reaction to the settled waitUntil promise
InstallSettled ==
    /\ swState = "installing"
    /\ installPromise \in {"fulfilled", "rejected"}
    /\ swState' = IF installPromise = "fulfilled" THEN "installed" ELSE "redundant"
    /\ UNCHANGED <<sw, browserRejectsDuplicates, quotaExceeded, caches, installPc,
                   installPromise, precacheFailed, pendingDeletes, swLog, ev, pendingPuts,
                   unhandled>>

\* ---- activate
\* cacheNames.filter(name => name !== CACHE_NAME)
CachesToDelete(names) == { n \in names : n # CACHE_NAME }

\* mutant: claim is chained to caches.keys(), not to the deletions
ClaimReady_NoWait == TRUE

\* Promise.all(deletions).then(() => self.clients.claim()): claim runs when every
\* deletion promise has resolved
ClaimReady == pendingDeletes = {}

\* activate is dispatched: the handler calls caches.keys() and hands the chain to
\* waitUntil
ActivateEvent ==
    /\ swState = "installed"
    /\ swState' = "activating"
    /\ UNCHANGED <<sw, browserRejectsDuplicates, quotaExceeded, caches, installPc,
                   installPromise, precacheFailed, pendingDeletes, swLog, ev, pendingPuts,
                   unhandled>>

\* caches.keys() resolves: one caches.delete starts per old cache
ActivateKeys ==
    /\ swState = "activating"
    /\ swLog = << >>
    /\ pendingDeletes' = CachesToDelete(CacheNames)
    /\ swLog' = << [op |-> "keys", names |-> CacheNames] >>
    /\ UNCHANGED <<sw, browserRejectsDuplicates, quotaExceeded, caches, swState, installPc,
                   installPromise, precacheFailed, ev, pendingPuts, unhandled>>

\* one caches.delete(name) completes
DeleteCache(n) ==
    /\ swState = "activating"
    /\ n \in pendingDeletes
    /\ caches' = CachesDelete(caches, n)
    /\ pendingDeletes' = pendingDeletes \ {n}
    /\ swLog' = Append(swLog, [op |-> "delete", names |-> {n}])
    /\ UNCHANGED <<sw, browserRejectsDuplicates, quotaExceeded, swState, installPc,
                   installPromise, precacheFailed, ev, pendingPuts, unhandled>>

Claimed == \E i \in DOMAIN swLog : swLog[i].op = "claim"

\* self.clients.claim(); its promise settles the one given to waitUntil
ClientsClaim ==
    /\ swState = "activating"
    /\ swLog # << >>
    /\ ~Claimed
    /\ ClaimReady
    /\ swLog' = Append(swLog, [op |-> "claim", names |-> CacheNames])
    /\ UNCHANGED <<sw, browserRejectsDuplicates, quotaExceeded, caches, swState, installPc,
                   installPromise, precacheFailed, pendingDeletes, ev, pendingPuts,
                   unhandled>>

\* the waitUntil promise of activate has settled: the worker is activated
ActivateSettled ==
    /\ swState = "activating"
    /\ Claimed
    /\ pendingDeletes = {}
    /\ swState' = "activated"
    /\ UNCHANGED <<sw, browserRejectsDuplicates, quotaExceeded, caches, installPc,
                   installPromise, precacheFailed, pendingDeletes, swLog, ev, pendingPuts,
                   unhandled>>

\* ---- fetch
\* The handler's synchronous part.  A request that fails the method guard returns
\* before respondWith; otherwise respondWith is called with a chain that starts with
\* caches.match (cache-first, stale-while-revalidate) or fetch (network-first).
OnFetchEvent(request) ==
    IF ~PassesMethodGuard(request)
    THEN [IdleEvent EXCEPT !.req = request, !.pc = "done", !.resp = NotIntercepted]
    ELSE IF FetchBody.name = "network-first"
    THEN [IdleEvent EXCEPT !.req = request, !.pc = "net",
                           !.ops = {"respondWith", "fetch"}]
    ELSE [IdleEvent EXCEPT !.req = request, !.pc = "match",
                           !.ops = {"respondWith", "match"}]

\* cache-first, .then(cachedResponse => ...): a hit is returned, a miss goes to the network
CacheFirstAfterMatch(e, hit) ==
    IF hit
    THEN [e EXCEPT !.hit = "hit", !.resp = CachesMatch(e.req.url), !.pc = "done"]
    ELSE [e EXCEPT !.hit = "miss", !.ops = @ \cup {"fetch"}, !.pc = "net"]

\* stale-while-revalidate, .then(cachedResponse => ...): fetchPromise is created first,
\* then `cachedResponse || fetchPromise` is returned
StaleWhileRevalidateAfterMatch(e, hit) ==
    [e EXCEPT !.hit = IF hit THEN "hit" ELSE "miss",
              !.ops = @ \cup {"fetch"},
              !.resp = IF hit THEN CachesMatch(e.req.url) ELSE Pending,
              !.pc = "net"]

\* Each of the next three gives the event after fetch(event.request) settled with `o`,
\* whether a background caches.open(CACHE_NAME).then(put) was started, and whether a
\* promise rejected with nobody listening.

\* cache-first: fetch(...).then(response => ...).catch(error => ...)
CacheFirstAfterFetch(e, o) ==
    IF o # "failed"
    THEN [ev |-> [e EXCEPT !.net = o, !.resp = NetworkResponse(o), !.pc = "done",
                          !.ops = IF CacheFirstQualifies(o) THEN @ \cup {"put"} ELSE @],
          put |-> CacheFirstQualifies(o), lost |-> {}]
    ELSE [ev |-> OfflineFallback([e EXCEPT !.net = o]), put |-> FALSE, lost |-> {}]

\* network-first: fetch(...).then(response => ...); a rejection runs the .catch, whose
\* first step is another asynchronous caches.match(event.request)
NetworkFirstAfterFetch(e, o) ==
    IF o # "failed"
    THEN [ev |-> [e EXCEPT !.net = o, !.resp = NetworkResponse(o), !.pc = "done",
                          !.ops = IF Status200Qualifies(o) THEN @ \cup {"put"} ELSE @],
          put |-> Status200Qualifies(o), lost |-> {}]
    ELSE [ev |-> [e EXCEPT !.net = o, !.ops = @ \cup {"match"}, !.pc = "fallback"],
          put |-> FALSE, lost |-> {}]

\* network-first: .catch(error => caches.match(event.request).then(cachedResponse => ...))
NetworkFirstAfterFallback(e, hit) ==
    IF hit
    THEN [e EXCEPT !.hit = "hit", !.resp = CachesMatch(e.req.url), !.pc = "done"]
    ELSE OfflineFallback([e EXCEPT !.hit = "miss"])

\* stale-while-revalidate: fetchPromise settles.  It is what respondWith got only on a
\* cache miss; on a hit nobody holds it, so its rejection has no handler.
StaleWhileRevalidateAfterFetch(e, o) ==
    IF o # "failed"
    THEN [ev |-> [e EXCEPT !.net = o, !.pc = "done",
                          !.resp = IF e.hit = "miss" THEN NetworkResponse(o) ELSE @,
                          !.ops = IF Status200Qualifies(o) THEN @ \cup {"put"} ELSE @],
          put |-> Status200Qualifies(o), lost |-> {}]
    ELSE [ev |-> OfflineFallback([e EXCEPT !.net = o]), put |-> FALSE,
          lost |-> IF Throws(e) /\ e.hit = "hit" THEN {"fetchPromise"} ELSE {}]

\* a controlled page issues a request and the worker's fetch listener runs
FetchEvent(url, kind) ==
    /\ swState = "activated"
    /\ ev.pc \in {"idle", "done"}
    /\ ev' = OnFetchEvent([url |-> url, method |-> kind.method, mode |-> kind.mode,
                           acceptsHtml |-> kind.acceptsHtml])
    /\ UNCHANGED <<sw, browserRejectsDuplicates, quotaExceeded, caches, swState, installPc,
                   installPromise, precacheFailed, pendingDeletes, swLog, pendingPuts,
                   unhandled>>

\* caches.match(event.request) resolves
CacheLookup ==
    /\ ev.pc = "match"
    /\ ev' = IF FetchBody.name = "cache-first"
             THEN CacheFirstAfterMatch(ev, CachesHas(ev.req.url))
             ELSE StaleWhileRevalidateAfterMatch(ev, CachesHas(ev.req.url))
    /\ UNCHANGED <<sw, browserRejectsDuplicates, quotaExceeded, caches, swState, installPc,
                   installPromise, precacheFailed, pendingDeletes, swLog, pendingPuts,
                   unhandled>>

\* fetch(event.request) settles with `o`; every qualifying response starts one more
\* background write of its URL
NetworkSettles(o) ==
    /\ ev.pc = "net"
    /\ LET r == CASE FetchBody.name = "cache-first" -> CacheFirstAfterFetch(ev, o)
                  [] FetchBody.name = "network-first" -> NetworkFirstAfterFetch(ev, o)
                  [] OTHER -> StaleWhileRevalidateAfterFetch(ev, o)
       IN  /\ r.put => pendingPuts[ev.req.url] < MaxPendingPuts
           /\ ev' = r.ev
           /\ pendingPuts' = IF r.put THEN [pendingPuts EXCEPT ![ev.req.url] = @ + 1]
                              ELSE pendingPuts
           /\ unhandled' = unhandled \cup r.lost
    /\ UNCHANGED <<sw, browserRejectsDuplicates, quotaExceeded, caches, swState, installPc,
                   installPromise, precacheFailed, pendingDeletes, swLog>>

\* network-first: the fallback caches.match(event.request) resolves
FallbackLookup ==
    /\ ev.pc = "fallback"
    /\ ev' = NetworkFirstAfterFallback(ev, CachesHas(ev.req.url))
    /\ UNCHANGED <<sw, browserRejectsDuplicates, quotaExceeded, caches, swState, installPc,
                   installPromise, precacheFailed, pendingDeletes, swLog, pendingPuts,
                   unhandled>>

\* the catch handler's caches.match(OFFLINE_URL) resolves
OfflineLookup ==
    /\ ev.pc = "offline-lookup"
    /\ ev' = AfterOfflineLookup(ev, CachesMatch(OFFLINE_URL))
    /\ UNCHANGED <<sw, browserRejectsDuplicates, quotaExceeded, caches, swState, installPc,
                   installPromise, precacheFailed, pendingDeletes, swLog, pendingPuts,
                   unhandled>>

\* one caches.open(CACHE_NAME).then(cache => { cache.put(event.request, responseToCache); })
\* runs.  The chain has no .catch and the put promise is dropped: a rejected write is
\* an unhandled rejection.
PutCompletes(url) ==
    /\ pendingPuts[url] > 0
    /\ pendingPuts' = [pendingPuts EXCEPT ![url] = @ - 1]
    /\ IF quotaExceeded
       THEN /\ caches' = CachesOpen(caches, CACHE_NAME)
            /\ unhandled' = unhandled \cup {"cache.put"}
       ELSE /\ caches' = CachePut(CachesOpen(caches, CACHE_NAME), CACHE_NAME, url, "network")
            /\ UNCHANGED unhandled
    /\ UNCHANGED <<sw, browserRejectsDuplicates, quotaExceeded, swState, installPc,
                   installPromise, precacheFailed, pendingDeletes, swLog, ev>>

SwNext ==
    \/ InstallEvent /\ UNCHANGED <<genVars, appVars, injVars, pwaVars>>
    \/ InstallOpenCache /\ UNCHANGED <<genVars, appVars, injVars, pwaVars>>
    \/ InstallAddAll /\ UNCHANGED <<genVars, appVars, injVars, pwaVars>>
    \/ InstallSkipWaiting /\ UNCHANGED <<genVars, appVars, injVars, pwaVars>>
    \/ InstallCatch /\ UNCHANGED <<genVars, appVars, injVars, pwaVars>>
    \/ InstallSettled /\ UNCHANGED <<genVars, appVars, injVars, pwaVars>>
    \/ ActivateEvent /\ UNCHANGED <<genVars, appVars, injVars, pwaVars>>
    \/ ActivateKeys /\ UNCHANGED <<genVars, appVars, injVars, pwaVars>>
    \/ \E n \in OldCacheNames : DeleteCache(n) /\ UNCHANGED <<genVars, appVars, injVars, pwaVars>>
    \/ ClientsClaim /\ UNCHANGED <<genVars, appVars, injVars, pwaVars>>
    \/ ActivateSettled /\ UNCHANGED <<genVars, appVars, injVars, pwaVars>>
    \/ \E url \in ReqUrls, kind \in RequestKinds : FetchEvent(url, kind) /\ UNCHANGED <<genVars, appVars, injVars, pwaVars>>
    \/ CacheLookup /\ UNCHANGED <<genVars, appVars, injVars, pwaVars>>
    \/ \E o \in NetOutcomes : NetworkSettles(o) /\ UNCHANGED <<genVars, appVars, injVars, pwaVars>>
    \/ FallbackLookup /\ UNCHANGED <<genVars, appVars, injVars, pwaVars>>
    \/ OfflineLookup /\ UNCHANGED <<genVars, appVars, injVars, pwaVars>>
    \/ \E url \in ReqUrls : PutCompletes(url) /\ UNCHANGED <<genVars, appVars, injVars, pwaVars>>

\* the steps of a worker generated with the stale-while-revalidate strategy: its fetch
\* handler has no fallback lookup of the request
SwrNext ==
    \/ InstallEvent /\ UNCHANGED <<genVars, appVars, injVars, pwaVars>>
    \/ InstallOpenCache /\ UNCHANGED <<genVars, appVars, injVars, pwaVars>>
    \/ InstallAddAll /\ UNCHANGED <<genVars, appVars, injVars, pwaVars>>
    \/ InstallSkipWaiting /\ UNCHANGED <<genVars, appVars, injVars, pwaVars>>
    \/ InstallCatch /\ UNCHANGED <<genVars, appVars, injVars, pwaVars>>
    \/ InstallSettled /\ UNCHANGED <<genVars, appVars, injVars, pwaVars>>
    \/ ActivateEvent /\ UNCHANGED <<genVars, appVars, injVars, pwaVars>>
    \/ ActivateKeys /\ UNCHANGED <<genVars, appVars, injVars, pwaVars>>
    \/ \E n \in OldCacheNames : DeleteCache(n) /\ UNCHANGED <<genVars, appVars, injVars, pwaVars>>
    \/ ClientsClaim /\ UNCHANGED <<genVars, appVars, injVars, pwaVars>>
    \/ ActivateSettled /\ UNCHANGED <<genVars, appVars, injVars, pwaVars>>
    \/ \E url \in ReqUrls, kind \in RequestKinds : FetchEvent(url, kind) /\ UNCHANGED <<genVars, appVars, injVars, pwaVars>>
    \/ CacheLookup /\ UNCHANGED <<genVars, appVars, injVars, pwaVars>>
    \/ \E o \in NetOutcomes : NetworkSettles(o) /\ UNCHANGED <<genVars, appVars, injVars, pwaVars>>
    \/ OfflineLookup /\ UNCHANGED <<genVars, appVars, injVars, pwaVars>>
    \/ \E url \in ReqUrls : PutCompletes(url) /\ UNCHANGED <<genVars, appVars, injVars, pwaVars>>

\* ------------------------------------------------------------------------
\* The converter session: configuration and generated files
\* ------------------------------------------------------------------------

\* a property that was never set, as template literals print it
Undefined == <<"undefined">>

\* this.config = {}: every property reads undefined
EmptyConfig ==
    [ name |-> Undefined, shortName |-> Undefined, appId |-> Undefined,
      folderName |-> Undefined, themeColor |-> Undefined,
      startUrl |-> Undefined, scope |-> Undefined, cacheStrategy |-> "undefined",
      enableOffline |-> FALSE, enableNotifications |-> FALSE ]

\* this.generatedFiles = {}: <<>> is a property that is not set, <<x>> one set to x
EmptyGenerated ==
    [ manifest |-> << >>, serviceWorker |-> << >>, html |-> << >>, js |-> << >>,
      offline |-> << >>, icons |-> << >> ]

PwaIdle ==
    /\ thisConfig = EmptyConfig
    /\ generatedFiles = EmptyGenerated
    /\ pwaRuns = << >>
    /\ loading = FALSE
    /\ archive = << >>
    /\ compressing = 0

\* ------------------------------------------------------------------------
\* The converter session: folder upload
\* ------------------------------------------------------------------------

\* null is the empty sequence, an object x is <<x>>
Null == << >>

\* const maxSize = 100 * 1024 * 1024
maxSize == 104857600

\* const warnSize = 50 * 1024 * 1024
warnSize == 52428800

\* ---- text of names and documents
FolderNames == { "My App", "shop", "#" }

\* the characters of a folder name
Chars(name) ==
    CASE name = "My App" -> << "M", "y", " ", "A", "p", "p" >>
      [] name = "#" -> << "#" >>
      [] OTHER -> << "s", "h", "o", "p" >>

\* String.prototype.toLowerCase on one character or one markup token
Lower(c) ==
    CASE c = "M" -> "m"
      [] c = "A" -> "a"
      [] c = "<!DOCTYPE" -> "<!doctype"
      [] c = "<HTML" -> "<html"
      [] c = "<HEAD>" -> "<head>"
      [] c = "</HEAD>" -> "</head>"
      [] c = "</BODY>" -> "</body>"
      [] OTHER -> c

toLowerCase(s) == [i \in DOMAIN s |-> Lower(s[i])]

\* String.prototype.trim
RECURSIVE TrimLeft(_)
TrimLeft(s) == IF s # << >> /\ Head(s) = " " THEN TrimLeft(Tail(s)) ELSE s

RECURSIVE TrimRight(_)
TrimRight(s) ==
    IF s # << >> /\ s[Len(s)] = " " THEN TrimRight(SubSeq(s, 1, Len(s) - 1)) ELSE s

\* replace(/c+/g, r): every maximal run of the character c becomes r
RECURSIVE ReplaceRuns(_, _, _)
ReplaceRuns(s, c, r) ==
    IF s = << >> THEN << >>
    ELSE IF Head(s) = c
         THEN IF Len(s) > 1 /\ s[2] = c
              THEN ReplaceRuns(Tail(s), c, r)
              ELSE <<r>> \o ReplaceRuns(Tail(s), c, r)
         ELSE <<Head(s)>> \o ReplaceRuns(Tail(s), c, r)

\* the characters the class [a-z0-9-] accepts, among those of the model
UrlSafe == { "m", "y", "a", "p", "s", "h", "o", "-" }

\* sanitizeFolderName(name)
sanitizeFolderName(chars) ==
    LET lowered  == TrimRight(TrimLeft(toLowerCase(chars)))
        hyphened == ReplaceRuns(lowered, " ", "-")
        stripped == SelectSeq(hyphened, LAMBDA c : c \in UrlSafe)
        single   == ReplaceRuns(stripped, "-", "-")
        noLead   == IF single # << >> /\ Head(single) = "-" THEN Tail(single) ELSE single
    IN  IF noLead # << >> /\ noLead[Len(noLead)] = "-"
        THEN SubSeq(noLead, 1, Len(noLead) - 1)
        ELSE noLead

\* validateHTML(content)
validateHTML(content) ==
    LET lower == toLowerCase(content)
    IN  "<!doctype" \in Range(lower) \/ "<html" \in Range(lower)

\* ---- the files a user can select
\* A File is its webkitRelativePath split at '/', its size and its text.
File(folder, rel, size, content) ==
    [webkitRelativePath |-> <<folder>> \o rel, size |-> size, content |-> content]

Documents ==
    { << "<!DOCTYPE", "<html", "<body" >>, << "<HTML", "<body" >>, << "text" >> }

\* the folder "My App" offers every kind of file, the folders "shop" and "#" a
\* plain site
FolderFiles(folder) ==
    IF folder = "My App"
    THEN { File(folder, <<"index.html">>, 1, d) : d \in Documents }
         \cup { File(folder, <<"style.css">>, 1, <<"css">>),
                File(folder, <<"app.js">>, 1, <<"js">>),
                File(folder, <<"sub", "index.html">>, 1, << "<!DOCTYPE", "<html" >>),
                File(folder, <<"node_modules", "vendor.js">>, 1, <<"js">>),
                File(folder, <<"video.mp4">>, warnSize, <<"bin">>),
                File(folder, <<"dist", "bundle.bin">>, maxSize, <<"bin">>) }
    ELSE { File(folder, <<"index.html">>, 1, << "<!DOCTYPE", "<html", "<body" >>),
           File(folder, <<"style.css">>, 1, <<"css">>) }

\* event.target.files: the files of one folder, each path once
FileLists ==
    UNION { { l \in SeqsUpTo(FolderFiles(folder), MaxFiles) :
                \A i, j \in DOMAIN l :
                    i # j => l[i].webkitRelativePath # l[j].webkitRelativePath }
            : folder \in FolderNames }

\* the folders the user selects in the session of the converter page: a plain site
\* in both directory orders, a folder whose index.html is no document, a script before
\* the document, a folder without index.html, a folder whose name has no URL-safe
\* character, a large folder and a folder over the ceiling
SessionFileLists ==
    { << File("shop", <<"index.html">>, 1, << "<!DOCTYPE", "<html", "<body" >>),
         File("shop", <<"style.css">>, 1, <<"css">>) >>,
      << File("shop", <<"style.css">>, 1, <<"css">>),
         File("shop", <<"index.html">>, 1, << "<!DOCTYPE", "<html", "<body" >>) >>,
      << File("My App", <<"index.html">>, 1, << "text" >>) >>,
      << File("My App", <<"app.js">>, 1, <<"js">>),
         File("My App", <<"index.html">>, 1, << "<HTML", "<body" >>) >>,
      << File("My App", <<"style.css">>, 1, <<"css">>) >>,
      << File("#", <<"index.html">>, 1, << "<!DOCTYPE", "<html", "<body" >>) >>,
      << File("My App", <<"index.html">>, 1, << "<!DOCTYPE", "<html", "<body" >>),
         File("My App", <<"video.mp4">>, warnSize, <<"bin">>) >>,
      << File("My App", <<"dist", "bundle.bin">>, maxSize, <<"bin">>),
         File("My App", <<"index.html">>, 1, << "<!DOCTYPE", "<html", "<body" >>) >> }

\* getRelativePath(file): the path without its first segment
getRelativePath(file) == Tail(file.webkitRelativePath)

\* relativePath.endsWith(ext), on the last segment
EndsWith(rel, ext) ==
    /\ rel # << >>
    /\ CASE ext = ".css" -> rel[Len(rel)] \in {"style.css"}
         [] ext = ".js" -> rel[Len(rel)] \in {"app.js", "vendor.js"}
         [] OTHER -> FALSE

\* relativePath.includes(word)
Includes(rel, word) ==
    \E i \in DOMAIN rel :
        CASE word = "node_modules" -> rel[i] = "node_modules"
          [] word = "dist" -> rel[i] = "dist"
          [] OTHER -> FALSE

RECURSIVE SumSizes(_)
\* files.reduce((sum, file) => sum + file.size, 0)
SumSizes(list) == IF list = << >> THEN 0 ELSE Head(list).size + SumSizes(Tail(list))

\* ---- this.files
EmptyFiles ==
    [ folderName |-> Null, sanitizedName |-> Null, allFiles |-> << >>, totalSize |-> 0,
      index |-> Null, css |-> Null, js |-> Null, icon |-> Null ]

EmptyForm == [ folderName |-> << >>, appId |-> << >>, startUrl |-> << >>, scope |-> << >> ]

\* the fileInfo pushed to allFiles
FileInfo(file) ==
    [path |-> getRelativePath(file), size |-> file.size, blob |-> file.content]

\* the object stored as files.index, files.css or files.js
Stored(file) == [path |-> getRelativePath(file), content |-> file.content]

\* processAllFiles from the i-th file on, up to the next await readTextFile or the
\* end of the list: the files object reached, the index of the file whose read is
\* awaited (0 at the end of the list) and the field the text is for
RECURSIVE processAllFiles(_, _, _)
processAllFiles(f, list, i) ==
    IF i > Len(list)
    THEN [files |-> f, at |-> 0, target |-> "none"]
    ELSE LET relativePath == getRelativePath(list[i])
             pushed == [f EXCEPT !.allFiles = Append(@, FileInfo(list[i]))]
         IN  IF relativePath = <<"index.html">>
             THEN [files |-> pushed, at |-> i, target |-> "index"]
             ELSE IF EndsWith(relativePath, ".css") /\ pushed.css = Null
             THEN [files |-> pushed, at |-> i, target |-> "css"]
             ELSE IF EndsWith(relativePath, ".js") /\ pushed.js = Null
                     /\ ~Includes(relativePath, "node_modules")
                     /\ ~Includes(relativePath, "dist")
             THEN [files |-> pushed, at |-> i, target |-> "js"]
             ELSE processAllFiles(pushed, list, i + 1)

\* validateFolderStructure(): TRUE when it does not throw
validateFolderStructure(f) ==
    /\ f.index # Null
    /\ validateHTML(f.index[1].content)

\* updateUrlFields(folderName)
updateUrlFields(fm, modified, folderName) ==
    IF folderName = << >>
    THEN fm
    ELSE [fm EXCEPT
            !.startUrl = IF "start-url" \in modified THEN @ ELSE <<"/">> \o folderName \o <<"/">>,
            !.scope = IF "scope" \in modified THEN @ ELSE <<"/">> \o folderName \o <<"/">>]

\* autoFillConfiguration(): the routing fields of the form
\* (a null sanitizedName shows as '' in folder-name and as 'null' in app-id)
autoFillConfiguration(fm, modified, f) ==
    LET name == IF f.sanitizedName = Null THEN << >> ELSE f.sanitizedName[1]
    IN  updateUrlFields(
            [fm EXCEPT !.folderName = name,
                       !.appId = (IF f.sanitizedName = Null THEN <<"null">> ELSE name)
                                 \o <<"-id">>],
            modified, name)

\* the list has a file at relative path exactly index.html whose text passes validateHTML
HasValidRoot(list) ==
    \E i \in DOMAIN list :
        /\ getRelativePath(list[i]) = <<"index.html">>
        /\ validateHTML(list[i].content)

\* the first file of the list, in list order, that passes the test: null, or the
\* object to be stored for it
FirstOf(list, Test(_)) ==
    LET M == { i \in DOMAIN list : Test(getRelativePath(list[i])) }
    IN  IF M = {}
        THEN Null
        ELSE << Stored(list[CHOOSE m \in M : \A n \in M : m <= n]) >>

\* One run of handleFolderUpload: its closure (the list, the loop position, the field
\* the awaited text is for) and, for the record, whether the list had a valid root,
\* its total size, whether the size warning was shown, whether a file read was
\* started, the error it ended with, whether reset() was called while it was
\* suspended, the sanitized name of its folder, and the first stylesheet and the
\* first script outside node_modules and dist of the list.
Run(list, pc, at, target) ==
    [ list |-> list, pc |-> pc, at |-> at, target |-> target, stale |-> FALSE,
      validRoot |-> HasValidRoot(list), total |-> SumSizes(list),
      warned |-> pc = "delay", reads |-> FALSE, error |-> "none", discarded |-> FALSE,
      sanitized |-> sanitizeFolderName(Chars(list[1].webkitRelativePath[1])),
      firstCss |-> FirstOf(list, LAMBDA rel : EndsWith(rel, ".css")),
      firstJs |-> FirstOf(list, LAMBDA rel : /\ EndsWith(rel, ".js")
                                            /\ ~Includes(rel, "node_modules")
                                            /\ ~Includes(rel, "dist")) ]

\* a run that returned: its closure is gone
Ended(run, how) == [run EXCEPT !.pc = how, !.at = 0, !.target = "none", !.list = << >>,
                               !.stale = FALSE]

\* a run that ended in the catch block, with the error that was thrown
Failed(run, why) == [Ended(run, "error") EXCEPT !.error = why]

\* this.files is replaced by a new object: an assignment whose target object was
\* taken before an await still pending will write to the object dropped here
Orphan(runs) ==
    [k \in DOMAIN runs |->
        IF runs[k].pc = "read" THEN [runs[k] EXCEPT !.stale = TRUE] ELSE runs[k]]

\* reset() was called: the runs of handleFolderUpload suspended at an await
DiscardUploads(runs) ==
    [k \in DOMAIN runs |->
        IF runs[k].pc \in {"delay", "read"}
        THEN [runs[k] EXCEPT !.discarded = TRUE]
        ELSE runs[k]]

\* One run of handleIconUpload: where it is (suspended at await processIcon, ended
\* with the icon stored, ended in its catch block) and whether this.files was
\* replaced while it was suspended.
IconRun(pc) == [ pc |-> pc, stale |-> FALSE ]

\* this.files is replaced by a new object: `this.files.icon = await ...` of a run
\* still suspended will write to the object dropped here
OrphanIcons(runs) ==
    [k \in DOMAIN runs |->
        IF runs[k].pc = "pending" THEN [runs[k] EXCEPT !.stale = TRUE] ELSE runs[k]]

\* mutant: the catch block clears the file list only
Caught_KeepNames(k, runs, why) ==
    [ files |-> [files EXCEPT !.allFiles = << >>],
      uploads |-> Orphan([runs EXCEPT ![k] = Failed(@, why)]),
      form |-> form, nextDisabled |-> TRUE, folderStatus |-> "error",
      iconRuns |-> OrphanIcons(iconRuns) ]

\* the catch block of handleFolderUpload, entered with the error `why`
Caught(k, runs, why) ==
    [ files |-> EmptyFiles,
      uploads |-> Orphan([runs EXCEPT ![k] = Failed(@, why)]),
      form |-> form, nextDisabled |-> TRUE, folderStatus |-> "error",
      iconRuns |-> OrphanIcons(iconRuns) ]

\* The state after a run of handleFolderUpload went on from the files object `f`
\* with the list processed from file i: suspended at the next read, ended in the
\* catch block, or ended in success.
Continue(k, runs, f, i) ==
    LET list == runs[k].list
        r == processAllFiles(f, list, i)
    IN  IF r.at # 0
        THEN [ files |-> r.files,
               uploads |-> [runs EXCEPT ![k].pc = "read", ![k].at = r.at,
                                        ![k].target = r.target, ![k].stale = FALSE,
                                        ![k].reads = TRUE],
               form |-> form, nextDisabled |-> nextDisabled, folderStatus |-> folderStatus,
               iconRuns |-> iconRuns ]
        ELSE IF validateFolderStructure(r.files)
        THEN [ files |-> r.files,
               uploads |-> [runs EXCEPT ![k] = Ended(@, "success")],
               form |-> autoFillConfiguration(form, userModified, r.files),
               nextDisabled |-> FALSE, folderStatus |-> "success", iconRuns |-> iconRuns ]
        ELSE Caught(k, runs, IF r.files.index = Null THEN "no-index" ELSE "invalid-html")

Apply(st) ==
    /\ files' = st.files
    /\ uploads' = st.uploads
    /\ form' = st.form
    /\ nextDisabled' = st.nextDisabled
    /\ folderStatus' = st.folderStatus
    /\ iconRuns' = st.iconRuns

\* mutant: the ceiling itself is refused
ExceedsMax_Inclusive(totalSize) == totalSize >= maxSize

\* if (this.files.totalSize > maxSize) throw
ExceedsMax(totalSize) == totalSize > maxSize

\* if (this.files.totalSize > warnSize)
ExceedsWarn(totalSize) == totalSize > warnSize

\* the head of handleFolderUpload: name and size are stored before anything is checked
Named(f, list) ==
    [f EXCEPT !.folderName = <<list[1].webkitRelativePath[1]>>,
              !.sanitizedName = <<sanitizeFolderName(Chars(list[1].webkitRelativePath[1]))>>,
              !.totalSize = SumSizes(list)]

AppInit ==
    /\ files = EmptyFiles
    /\ form = EmptyForm
    /\ userModified = {}
    /\ nextDisabled = TRUE
    /\ section = "upload"
    /\ folderStatus = ""
    /\ uploads = << >>
    /\ iconRuns = << >>

\* change event of #folder-input: handleFolderUpload(event) up to its first await
HandleFolderUpload(list) ==
    /\ Len(uploads) < MaxUploads
    /\ list # << >>
    /\ LET k == Len(uploads) + 1
           named == Named(files, list)
       IN  IF ExceedsMax(named.totalSize)
           THEN Apply(Caught(k, Append(uploads, Run(list, "start", 0, "none")), "size"))
           ELSE IF ExceedsWarn(named.totalSize)
           THEN /\ files' = named
                /\ uploads' = Append(uploads, Run(list, "delay", 0, "none"))
                /\ folderStatus' = "warning"
                /\ UNCHANGED <<form, nextDisabled, iconRuns>>
           ELSE LET st == Continue(k, Append(uploads, Run(list, "start", 0, "none")),
                                   [named EXCEPT !.allFiles = << >>], 1)
                IN  Apply(IF st.uploads[k].pc = "read"
                          THEN [st EXCEPT !.folderStatus = ""]
                          ELSE st)
    /\ UNCHANGED <<userModified, section>>

\* await this.delay(1000) is over: processAllFiles starts
DelayElapsed(k) ==
    /\ k \in DOMAIN uploads
    /\ uploads[k].pc = "delay"
    /\ Apply(Continue(k, uploads, [files EXCEPT !.allFiles = << >>], 1))
    /\ UNCHANGED <<userModified, section>>

\* await this.readTextFile(file) resolves: the text is assigned and the loop goes on
ReadResolves(k) ==
    /\ k \in DOMAIN uploads
    /\ uploads[k].pc = "read"
    /\ LET run == uploads[k]
           assigned == IF run.stale
                       THEN files
                       ELSE [files EXCEPT ![run.target] = <<Stored(run.list[run.at])>>]
       IN  Apply(Continue(k, uploads, assigned, run.at + 1))
    /\ UNCHANGED <<userModified, section>>

\* await this.readTextFile(file) rejects (reader.onerror): the catch block runs
ReadRejects(k) ==
    /\ k \in DOMAIN uploads
    /\ uploads[k].pc = "read"
    /\ Apply(Caught(k, uploads, "read"))
    /\ UNCHANGED <<userModified, section>>

\* what processIcon(file) resolves with
processIcon == << [dataUrl |-> "data:image/png"] >>

\* change event of #icon-file: handleIconUpload(event) up to await processIcon(file)
HandleIconUpload ==
    /\ Len(iconRuns) < MaxIconUploads
    /\ iconRuns' = Append(iconRuns, IconRun("pending"))
    /\ UNCHANGED <<files, form, userModified, nextDisabled, section, folderStatus, uploads>>

\* processIcon resolves: the icon is assigned to the files object taken before the
\* await, then icon-info is written from this.files.icon, which throws into the catch
\* block when the object now in this.files has no icon
IconLoads(k) ==
    /\ k \in DOMAIN iconRuns
    /\ iconRuns[k].pc = "pending"
    /\ LET assigned == IF iconRuns[k].stale THEN files
                       ELSE [files EXCEPT !.icon = processIcon]
       IN  /\ files' = assigned
           /\ iconRuns' = [iconRuns EXCEPT ![k].stale = FALSE,
                                           ![k].pc = IF assigned.icon = Null
                                                     THEN "failed" ELSE "loaded"]
    /\ UNCHANGED <<form, userModified, nextDisabled, section, folderStatus, uploads>>

\* processIcon rejects: the catch block sets this.files.icon = null
IconFails(k) ==
    /\ k \in DOMAIN iconRuns
    /\ iconRuns[k].pc = "pending"
    /\ files' = [files EXCEPT !.icon = Null]
    /\ iconRuns' = [iconRuns EXCEPT ![k].stale = FALSE, ![k].pc = "failed"]
    /\ UNCHANGED <<form, userModified, nextDisabled, section, folderStatus, uploads>>

\* click on #next-to-config, which a disabled button does not deliver
NextToConfig ==
    /\ ~nextDisabled
    /\ section = "upload"
    /\ section' = "config"
    /\ UNCHANGED <<files, form, userModified, nextDisabled, folderStatus, uploads,
                   iconRuns>>

\* click on #back-to-upload
BackToUpload ==
    /\ section = "config"
    /\ section' = "upload"
    /\ UNCHANGED <<files, form, userModified, nextDisabled, folderStatus, uploads,
                   iconRuns>>

\* what the user types in short-name and in folder-name
ShortNameInputs == { "My App" }

FolderNameInputs == { << "m", "y", "-", "a", "p", "p" >> }

\* input event of #short-name: app-id follows unless it was focused
InputShortName(value) ==
    /\ form' = [form EXCEPT !.appId = IF "app-id" \in userModified
                                      THEN @
                                      ELSE sanitizeFolderName(Chars(value)) \o <<"-id">>]
    /\ UNCHANGED <<files, userModified, nextDisabled, section, folderStatus, uploads,
                   iconRuns>>

\* input event of #folder-name: the field holds the text, updateUrlFields(value) runs
InputFolderName(value) ==
    /\ form' = updateUrlFields([form EXCEPT !.folderName = value], userModified, value)
    /\ UNCHANGED <<files, userModified, nextDisabled, section, folderStatus, uploads,
                   iconRuns>>

\* focus on one of the fields app-id, start-url, scope
FocusField(fieldId) ==
    /\ fieldId \notin userModified
    /\ userModified' = userModified \cup {fieldId}
    /\ UNCHANGED <<files, form, nextDisabled, section, folderStatus, uploads, iconRuns>>

\* mutant: the uploaded icon survives the reset
Reset_KeepIcon ==
    /\ files' = [EmptyFiles EXCEPT !.icon = files.icon]
    /\ form' = EmptyForm
    /\ userModified' = {}
    /\ nextDisabled' = TRUE
    /\ section' = "upload"
    /\ folderStatus' = ""
    /\ uploads' = DiscardUploads(Orphan(uploads))
    /\ iconRuns' = OrphanIcons(iconRuns)
    /\ thisConfig' = EmptyConfig
    /\ generatedFiles' = EmptyGenerated
    /\ pwaRuns' = [k \in DOMAIN pwaRuns |->
                        IF pwaRuns[k].pc \in {"done", "failed"}
                        THEN pwaRuns[k]
                        ELSE [pwaRuns[k] EXCEPT !.discarded = TRUE]]
    /\ UNCHANGED <<loading, archive, compressing>>

\* click on #start-over: reset()
Reset ==
    /\ files' = EmptyFiles
    /\ form' = EmptyForm
    /\ userModified' = {}
    /\ nextDisabled' = TRUE
    /\ section' = "upload"
    /\ folderStatus' = ""
    /\ uploads' = DiscardUploads(Orphan(uploads))
    /\ iconRuns' = OrphanIcons(iconRuns)
    /\ thisConfig' = EmptyConfig
    /\ generatedFiles' = EmptyGenerated
    /\ pwaRuns' = [k \in DOMAIN pwaRuns |->
                        IF pwaRuns[k].pc \in {"done", "failed"}
                        THEN pwaRuns[k]
                        ELSE [pwaRuns[k] EXCEPT !.discarded = TRUE]]
    /\ UNCHANGED <<loading, archive, compressing>>

AppNext ==
    \/ \E list \in SessionFileLists : HandleFolderUpload(list) /\ UNCHANGED <<genVars, swVars, injVars, pwaVars>>
    \/ \E k \in 1..MaxUploads : DelayElapsed(k) /\ UNCHANGED <<genVars, swVars, injVars, pwaVars>>
    \/ \E k \in 1..MaxUploads : ReadResolves(k) /\ UNCHANGED <<genVars, swVars, injVars, pwaVars>>
    \/ \E k \in 1..MaxUploads : ReadRejects(k) /\ UNCHANGED <<genVars, swVars, injVars, pwaVars>>
    \/ NextToConfig /\ UNCHANGED <<genVars, swVars, injVars, pwaVars>>
    \/ BackToUpload /\ UNCHANGED <<genVars, swVars, injVars, pwaVars>>
    \/ \E fieldId \in {"app-id", "start-url", "scope"} : FocusField(fieldId) /\ UNCHANGED <<genVars, swVars, injVars, pwaVars>>
    \/ \E value \in ShortNameInputs : InputShortName(value) /\ UNCHANGED <<genVars, swVars, injVars, pwaVars>>
    \/ \E value \in FolderNameInputs : InputFolderName(value) /\ UNCHANGED <<genVars, swVars, injVars, pwaVars>>
    \/ Reset /\ UNCHANGED <<genVars, swVars, injVars>>

\* ---- uploads of one folder around the size thresholds
\* the files of "My App" that decide the thresholds and the fatal errors, in
\* directory order
ThresholdFiles ==
    << File("My App", <<"app.js">>, 1, <<"js">>),
       File("My App", <<"dist", "bundle.bin">>, maxSize, <<"bin">>),
       File("My App", <<"index.html">>, 1, << "<!DOCTYPE", "<html", "<body" >>),
       File("My App", <<"index.html">>, 1, << "text" >>),
       File("My App", <<"video.mp4">>, warnSize, <<"bin">>) >>

\* the file lists made of them
ThresholdFileLists ==
    { l \in FileLists :
        /\ \A i \in DOMAIN l : \E n \in DOMAIN ThresholdFiles : l[i] = ThresholdFiles[n]
        /\ \A i, j \in DOMAIN l :
              i < j => \E m, n \in DOMAIN ThresholdFiles :
                          m < n /\ l[i] = ThresholdFiles[m] /\ l[j] = ThresholdFiles[n] }

UploadNext ==
    \/ \E list \in ThresholdFileLists :
            HandleFolderUpload(list) /\ UNCHANGED <<genVars, swVars, injVars, pwaVars>>
    \/ \E k \in 1..MaxUploads : DelayElapsed(k) /\ UNCHANGED <<genVars, swVars, injVars, pwaVars>>
    \/ \E k \in 1..MaxUploads : ReadResolves(k) /\ UNCHANGED <<genVars, swVars, injVars, pwaVars>>
    \/ \E k \in 1..MaxUploads : ReadRejects(k) /\ UNCHANGED <<genVars, swVars, injVars, pwaVars>>

\* ---- icon uploads and folder uploads of one session
IconNext ==
    \/ HandleIconUpload /\ UNCHANGED <<genVars, swVars, injVars, pwaVars>>
    \/ \E k \in 1..MaxIconUploads : IconLoads(k) /\ UNCHANGED <<genVars, swVars, injVars, pwaVars>>
    \/ \E k \in 1..MaxIconUploads : IconFails(k) /\ UNCHANGED <<genVars, swVars, injVars, pwaVars>>
    \/ \E list \in ThresholdFileLists :
            HandleFolderUpload(list) /\ UNCHANGED <<genVars, swVars, injVars, pwaVars>>
    \/ \E k \in 1..MaxUploads : DelayElapsed(k) /\ UNCHANGED <<genVars, swVars, injVars, pwaVars>>
    \/ \E k \in 1..MaxUploads : ReadResolves(k) /\ UNCHANGED <<genVars, swVars, injVars, pwaVars>>
    \/ \E k \in 1..MaxUploads : ReadRejects(k) /\ UNCHANGED <<genVars, swVars, injVars, pwaVars>>
    \/ Reset /\ UNCHANGED <<genVars, swVars, injVars>>

\* ------------------------------------------------------------------------
\* The HTML injector
\* ------------------------------------------------------------------------

\* A document is a sequence of markup tokens.  The tokens the injector writes:
ViewportMeta == "<meta name=viewport>"
ThemeColorMeta == "<meta name=theme-color>"
ManifestLink == "<link rel=manifest href=manifest.json>"
AppleMeta == "<meta name=apple-mobile-web-app-capable>...<link rel=apple-touch-icon>"
\* (the script has the comment `// +3 for manifest, sw, offline`)
SwRegistration == "<script>navigator.serviceWorker.register('sw.js')...</script>"

\* the words the guards look for, and the tokens of the model each is a substring of
\* (after toLowerCase)
TokensWith(word) ==
    CASE word = "viewport" -> { ViewportMeta, "<!-- viewport -->" }
      [] word = "theme-color" -> { ThemeColorMeta }
      [] word = "manifest" -> { ManifestLink, SwRegistration }
      [] word = "apple-mobile-web-app" -> { AppleMeta }
      [] OTHER -> {}

\* html.toLowerCase().includes(word)
HtmlIncludes(html, word) == \E i \in DOMAIN html : Lower(html[i]) \in TokensWith(word)

\* html.replace(/tag/i, replacement): the first match is replaced, none is no change
ReplaceFirstTag(html, tag, replacement) ==
    LET M == { i \in DOMAIN html : Lower(html[i]) = tag }
    IN  IF M = {}
        THEN html
        ELSE LET i == CHOOSE m \in M : \A n \in M : m <= n
             IN  SubSeq(html, 1, i - 1) \o replacement \o SubSeq(html, i + 1, Len(html))

\* injectPWACode() on the text `content` of this.files.index
injectPWACode(content) ==
    LET h1 == IF ~HtmlIncludes(content, "viewport")
              THEN ReplaceFirstTag(content, "<head>", << "<head>", ViewportMeta >>)
              ELSE content
        h2 == IF ~HtmlIncludes(h1, "theme-color")
              THEN ReplaceFirstTag(h1, "</head>", << ThemeColorMeta, "</head>" >>)
              ELSE h1
        h3 == IF ~HtmlIncludes(h2, "manifest")
              THEN ReplaceFirstTag(h2, "</head>", << ManifestLink, "</head>" >>)
              ELSE h2
        h4 == IF ~HtmlIncludes(h3, "apple-mobile-web-app")
              THEN ReplaceFirstTag(h3, "</head>", << AppleMeta, "</head>" >>)
              ELSE h3
    IN  ReplaceFirstTag(h4, "</body>", << SwRegistration, "</body>" >>)

\* ---- the documents a folder can hold as index.html
DocStarts == { << "<!DOCTYPE", "<html" >>, << "<HTML" >> }

HeadOpens == { << "<head>" >>, << "<HEAD>" >>, << "<head lang=en>" >>, << >> }

HeadContents ==
    { << >>, << ThemeColorMeta >>, << ViewportMeta >>, << "<!-- viewport -->" >> }

HeadCloses == { << "</head>" >>, << "</HEAD>" >>, << >> }

Bodies == { << "<body", "text", "</body>" >>, << "<body", "text", "</BODY>" >>,
            << "<body", "text" >> }

InjectDocs ==
    { a \o b \o c \o d \o e :
        a \in DocStarts, b \in HeadOpens, c \in HeadContents, d \in HeadCloses,
        e \in Bodies }

InjInit ==
    /\ injDoc \in { d \in InjectDocs : validateHTML(d) }
    /\ injOut = << >>

InjIdle ==
    /\ injDoc = << "<!DOCTYPE", "<html" >>
    /\ injOut = << >>

\* this.generatedFiles.html = this.injectPWACode()
InjectStep ==
    /\ injOut = << >>
    /\ injOut' = << injectPWACode(injDoc) >>
    /\ UNCHANGED injDoc

\* the output is ingested as index.html and injected again
InjectAgain ==
    /\ injOut # << >>
    /\ Len(injOut) < MaxInjections
    /\ injOut' = Append(injOut, injectPWACode(injOut[Len(injOut)]))
    /\ UNCHANGED injDoc

InjNext ==
    \/ InjectStep /\ UNCHANGED <<genVars, swVars, appVars, pwaVars>>
    \/ InjectAgain /\ UNCHANGED <<genVars, swVars, appVars, pwaVars>>

\* ------------------------------------------------------------------------
\* The converter session: generation and packaging
\* ------------------------------------------------------------------------

\* ---- the folders of the generation session, already ingested
PwaDocument == << "<!DOCTYPE", "<html", "<head>", "</head>", "<body", "</body>" >>

PwaFileLists ==
    { << File("shop", <<"index.html">>, 1, PwaDocument),
         File("shop", <<"app.js">>, 1, <<"js">>),
         File("shop", <<"sub", "index.html">>, 1, << "<!DOCTYPE", "<html" >>),
         File("shop", <<"README.md">>, 1, <<"notes of the site">>) >> }

\* processAllFiles from the i-th file on with every read resolving
RECURSIVE Ingest(_, _, _)
Ingest(f, list, i) ==
    LET r == processAllFiles(f, list, i)
    IN  IF r.at = 0
        THEN r.files
        ELSE Ingest([r.files EXCEPT ![r.target] = <<Stored(list[r.at])>>], list, r.at + 1)

\* this.files.icon after the handleIconUpload run of the session: the processed image
IconUploads == { processIcon }

\* the form controls the model does not keep in `form`, as the user left them
CacheStrategyChoices == { "cache-first", "network-first" }

\* the state after a folder was ingested and the configuration card was opened
PwaInit ==
    /\ \E list \in PwaFileLists, icon \in IconUploads :
        /\ files = [Ingest([Named(EmptyFiles, list) EXCEPT !.allFiles = << >>], list, 1)
                        EXCEPT !.icon = icon]
        /\ uploads = << [Ended(Run(list, "start", 0, "none"), "success")
                            EXCEPT !.reads = TRUE] >>
        /\ iconRuns = IF icon = Null THEN << >> ELSE << IconRun("loaded") >>
    /\ form = autoFillConfiguration(EmptyForm, {}, files)
    /\ userModified = {}
    /\ nextDisabled = FALSE
    /\ section = "config"
    /\ folderStatus = "success"
    /\ PwaIdle

\* ---- the generators generatePWA calls
\* `icon-${size}x${size}.png`
IconFileName(size) == "icon-" \o ToString(size) \o "x" \o ToString(size) \o ".png"

\* enhanceJavaScript(): the helpers, then the text of the primary script
enhanceJavaScript(f) == <<"pwaHelpers">> \o (IF f.js # Null THEN f.js[1].content ELSE << >>)

\* generateOfflinePage(): the page, by the configuration values printed in it
generateOfflinePage(cfg) ==
    [ title |-> <<"Offline - ">> \o cfg.name, href |-> cfg.startUrl ]

\* generateReadme(): the document, by its title and the file paths it lists (the
\* first 20, more than a folder of the model holds)
generateReadme(cfg, f) ==
    [ title |-> cfg.name, filesList |-> [i \in DOMAIN f.allFiles |-> f.allFiles[i].path] ]

\* ---- one run of generatePWA
\* its position (the await it is suspended at, "done" or "failed"), the index of the
\* icon size it is at and, for the record, what it was submitted with, the icon
\* modes it entered, the icon keys there were when it completed and whether reset()
\* was called while it was suspended
PwaRun(offline) ==
    [ pc |-> "manifest", i |-> 0, enableOffline |-> offline, modes |-> {},
      iconsAtEnd |-> {}, discarded |-> FALSE ]

InProgress(run) == run.pc \notin { "done", "failed" }

\* the values a step of a run leaves: the generated files, and the run
Stepped(g, run) == [ generated |-> g, run |-> run ]

\* the catch block of generatePWA
Thrown(g, run) == Stepped(g, [run EXCEPT !.pc = "failed"])

\* Object.keys(this.generatedFiles.icons || {})
IconsOf(g) == IF g.icons = << >> THEN {} ELSE DOMAIN g.icons[1]

\* this.generatedFiles.icons[`icon-${size}x${size}.png`] = blob
WriteIcon(g, size, blob) ==
    LET old == g.icons[1]
        key == IconFileName(size)
    IN  [g EXCEPT !.icons =
            << [k \in DOMAIN old \cup {key} |-> IF k = key THEN blob ELSE old[k]] >>]

\* the canvas of generateDefaultIcons is painted: addColorStop throws on a colour
\* that is undefined
PaintsPlaceholder(cfg) == cfg.themeColor # Undefined

\* if (this.files.icon) await this.generateIcons() else await this.generateDefaultIcons(),
\* up to the first await of the one entered
StartIcons(g, run) ==
    LET cleared == [g EXCEPT !.icons = << << >> >>]
    IN  IF files.icon # Null
        THEN Stepped(cleared, [run EXCEPT !.pc = "resize", !.i = 1,
                                           !.modes = @ \cup {"resample"}])
        ELSE IF PaintsPlaceholder(thisConfig)
        THEN Stepped(cleared, [run EXCEPT !.pc = "toBlob", !.i = 1,
                                           !.modes = @ \cup {"placeholder"}])
        ELSE Thrown(cleared, [run EXCEPT !.modes = @ \cup {"placeholder"}])

\* if (this.config.enableOffline) ... and what follows it
AfterJs(g, run) ==
    IF thisConfig.enableOffline
    THEN Stepped(g, [run EXCEPT !.pc = "offline"])
    ELSE StartIcons(g, run)

\* if (this.files.js) ... and what follows it
AfterHtml(g, run) ==
    IF files.js # Null
    THEN Stepped(g, [run EXCEPT !.pc = "js"])
    ELSE AfterJs(g, run)

\* generatePWA from the await the run is suspended at to its next await or its end;
\* this.files, this.config and this.generatedFiles are read when the step runs
PwaStep(run) ==
    LET g == generatedFiles
    IN  CASE run.pc = "manifest" ->
                Stepped([g EXCEPT !.manifest = << generateManifest(thisConfig) >>],
                        [run EXCEPT !.pc = "sw"])
          [] run.pc = "sw" ->
                Stepped([g EXCEPT !.serviceWorker =
                            << generateServiceWorker(thisConfig, files.allFiles) >>],
                        [run EXCEPT !.pc = "html"])
          [] run.pc = "html" ->
                IF files.index = Null
                THEN Thrown(g, run)
                ELSE AfterHtml([g EXCEPT !.html = << injectPWACode(files.index[1].content) >>],
                               run)
          [] run.pc = "js" ->
                AfterJs([g EXCEPT !.js = << enhanceJavaScript(files) >>], run)
          [] run.pc = "offline" ->
                StartIcons([g EXCEPT !.offline = << generateOfflinePage(thisConfig) >>], run)
          [] run.pc = "resize" ->
                IF g.icons = << >>
                THEN Thrown(g, run)
                ELSE Stepped(WriteIcon(g, IconSizes[run.i],
                                       [mode |-> "resample", size |-> IconSizes[run.i]]),
                             [run EXCEPT !.pc = "delay"])
          [] run.pc = "delay" ->
                IF run.i = Len(IconSizes)
                THEN Stepped(g, [run EXCEPT !.pc = "finish"])
                ELSE IF files.icon = Null
                THEN Thrown(g, run)
                ELSE Stepped(g, [run EXCEPT !.pc = "resize", !.i = @ + 1])
          [] run.pc = "toBlob" ->
                IF g.icons = << >>
                THEN Thrown(g, run)
                ELSE LET written == WriteIcon(g, IconSizes[run.i],
                                              [mode |-> "placeholder",
                                               size |-> IconSizes[run.i]])
                     IN  IF run.i = Len(IconSizes)
                         THEN Stepped(written, [run EXCEPT !.pc = "finish"])
                         ELSE IF PaintsPlaceholder(thisConfig)
                         THEN Stepped(written, [run EXCEPT !.i = @ + 1])
                         ELSE Thrown(written, run)
          [] OTHER ->
                Stepped(g, [run EXCEPT !.pc = "done", !.iconsAtEnd = IconsOf(g)])

\* submit event of #pwa-config-form: generatePWA(event) up to its first await
SubmitForm(strategy, offline) ==
    /\ section = "config"
    /\ Len(pwaRuns) < MaxPwaRuns
    /\ loading' = TRUE
    /\ thisConfig' =
            [ name |-> <<"Shop">>, shortName |-> <<"Shop">>, appId |-> form.appId,
              folderName |-> form.folderName, themeColor |-> <<"#2196F3">>,
              startUrl |-> form.startUrl, scope |-> form.scope,
              cacheStrategy |-> strategy, enableOffline |-> offline,
              enableNotifications |-> FALSE ]
    /\ pwaRuns' = Append(pwaRuns, PwaRun(offline))
    /\ UNCHANGED <<generatedFiles, archive, compressing, appVars>>

\* a timer, an image load or a toBlob callback a run awaits fires
PwaContinue(k) ==
    /\ k \in DOMAIN pwaRuns
    /\ InProgress(pwaRuns[k])
    /\ LET st == PwaStep(pwaRuns[k])
       IN  /\ generatedFiles' = st.generated
           /\ pwaRuns' = [pwaRuns EXCEPT ![k] = st.run]
           /\ loading' = IF InProgress(st.run) THEN loading ELSE FALSE
           /\ section' = IF st.run.pc = "done" THEN "download" ELSE section
    /\ UNCHANGED <<thisConfig, archive, compressing, files, form, userModified, nextDisabled,
                   folderStatus, uploads, iconRuns>>

\* ---- downloadAll
\* zip.file(path, data): an entry of the same path is replaced
ZipFile(zip, path, data) ==
    [p \in DOMAIN zip \cup {path} |-> IF p = path THEN data ELSE zip[p]]

\* the data handed to zip.file, by its kind (text, manifest, worker, page, image,
\* readme) and its content; a property that is not set is handed over as undefined
Data(kind, property) ==
    IF property = << >>
    THEN [kind |-> "undefined", body |-> << >>]
    ELSE [kind |-> kind, body |-> property[1]]

\* the loop over this.files.allFiles, from the i-th file on
RECURSIVE AddUserFiles(_, _, _, _)
AddUserFiles(zip, f, g, i) ==
    IF i > Len(f.allFiles)
    THEN zip
    ELSE LET file == f.allFiles[i]
             data == IF file.path = <<"index.html">>
                     THEN Data("text", g.html)
                     ELSE IF f.js # Null /\ file.path = f.js[1].path
                     THEN Data("text", g.js)
                     ELSE Data("text", << file.blob >>)
         IN  AddUserFiles(ZipFile(zip, file.path, data), f, g, i + 1)

\* zip.folder('icons').file(filename, blob) for every entry of generatedFiles.icons
AddIcons(zip, g) ==
    LET paths == { <<"icons", k>> : k \in IconsOf(g) }
    IN  [p \in DOMAIN zip \cup paths |->
            IF p \in paths THEN Data("image", << g.icons[1][p[2]] >>) ELSE zip[p]]

\* the zip object downloadAll has built when it calls generateAsync
BuildZip(f, g, cfg) ==
    LET user == AddUserFiles(<< >>, f, g, 1)
        manifest == ZipFile(user, <<"manifest.json">>, Data("manifest", g.manifest))
        worker == ZipFile(manifest, <<"sw.js">>, Data("worker", g.serviceWorker))
        offline == IF g.offline # << >>
                   THEN ZipFile(worker, <<"offline.html">>, Data("page", g.offline))
                   ELSE worker
        icons == AddIcons(offline, g)
    IN  ZipFile(icons, <<"README.md">>, Data("readme", << generateReadme(cfg, f) >>))

\* click on #download-all: downloadAll() up to await zip.generateAsync(...); the
\* overlay is shown and the zip is built from the files as they are now
DownloadAll ==
    /\ section = "download"
    /\ compressing < MaxDownloads
    /\ archive' = << BuildZip(files, generatedFiles, thisConfig) >>
    /\ loading' = TRUE
    /\ compressing' = compressing + 1
    /\ UNCHANGED <<thisConfig, generatedFiles, pwaRuns, appVars>>

\* zip.generateAsync settles: hideLoading() runs, after the await or in the catch block
ZipSettles ==
    /\ compressing > 0
    /\ compressing' = compressing - 1
    /\ loading' = FALSE
    /\ UNCHANGED <<thisConfig, generatedFiles, pwaRuns, archive, appVars>>

\* the operations with an await started so far in the session: folder uploads, icon
\* uploads and generation runs
Started == Len(uploads) + Len(iconRuns) + Len(pwaRuns)

\* the handlers of the page from the configuration card on; a session starts at most
\* MaxOperations operations
PwaNext ==
    \/ \E offline \in BOOLEAN :
            /\ Started < MaxOperations
            /\ SubmitForm("cache-first", offline)
            /\ UNCHANGED <<genVars, swVars, injVars>>
    \/ \E k \in 1..MaxPwaRuns : PwaContinue(k) /\ UNCHANGED <<genVars, swVars, injVars>>
    \/ DownloadAll /\ UNCHANGED <<genVars, swVars, injVars>>
    \/ ZipSettles /\ UNCHANGED <<genVars, swVars, injVars>>
    \/ Reset /\ UNCHANGED <<genVars, swVars, injVars>>
    \/ Started < MaxOperations /\ HandleIconUpload /\ UNCHANGED <<genVars, swVars, injVars, pwaVars>>
    \/ \E k \in 1..MaxIconUploads : IconLoads(k) /\ UNCHANGED <<genVars, swVars, injVars, pwaVars>>
    \/ \E k \in 1..MaxIconUploads : IconFails(k) /\ UNCHANGED <<genVars, swVars, injVars, pwaVars>>
    \/ \E list \in PwaFileLists :
            /\ Started < MaxOperations
            /\ HandleFolderUpload(list)
            /\ UNCHANGED <<genVars, swVars, injVars, pwaVars>>
    \/ \E k \in 1..MaxUploads : ReadResolves(k) /\ UNCHANGED <<genVars, swVars, injVars, pwaVars>>
    \/ \E k \in 1..MaxUploads : ReadRejects(k) /\ UNCHANGED <<genVars, swVars, injVars, pwaVars>>
    \/ NextToConfig /\ UNCHANGED <<genVars, swVars, injVars, pwaVars>>
    \/ BackToUpload /\ UNCHANGED <<genVars, swVars, injVars, pwaVars>>
    \/ \E value \in FolderNameInputs : InputFolderName(value) /\ UNCHANGED <<genVars, swVars, injVars, pwaVars>>

\* ------------------------------------------------------------------------
\* Specifications
\* ------------------------------------------------------------------------

\* the generator applied to every configuration and file list of the bounds
InitGen == GenInit /\ SwIdle /\ AppInit /\ InjIdle /\ PwaIdle

SpecGen == InitGen /\ [][GenNext]_vars

\* the emitted listeners and the notification handlers at run time
InitNotify == NotifyInit /\ SwIdle /\ AppInit /\ InjIdle /\ PwaIdle

SpecNotify == InitNotify /\ [][NotifyNext]_vars

\* one emitted worker from registration on
InitSW == SwInit /\ GenIdle /\ AppInit /\ InjIdle /\ PwaIdle

SpecSW == InitSW /\ [][SwNext]_vars

\* the worker generated with the stale-while-revalidate strategy, installed on an origin
\* that holds the caches of earlier deployments
InitSWR ==
    /\ InitSW
    /\ FetchBody.name = "stale-while-revalidate"
    /\ DOMAIN caches = OldCacheNames

\* the event loop runs every queued promise reaction: a started background write is run
SpecSWFair ==
    /\ InitSWR
    /\ [][SwrNext]_vars
    /\ \A url \in ReqUrls : WF_vars(PutCompletes(url) /\ UNCHANGED <<genVars, appVars, injVars, pwaVars>>)

\* the injector applied to every document of the bounds, then to its own output
InitInject == InjInit /\ GenIdle /\ SwIdle /\ AppInit /\ PwaIdle

SpecInject == InitInject /\ [][InjNext]_vars

\* one session of the converter page
Init == AppInit /\ GenIdle /\ SwIdle /\ InjIdle /\ PwaIdle

Spec == Init /\ [][AppNext]_vars

\* uploads of the folder "My App" around the size thresholds
SpecUpload == Init /\ [][UploadNext]_vars

\* icon uploads among the uploads of the folder "My App"
SpecIcon == Init /\ [][IconNext]_vars

\* generation, packaging and reset after a folder was ingested
InitPWA == PwaInit /\ GenIdle /\ SwIdle /\ InjIdle

SpecPWA == InitPWA /\ [][PwaNext]_vars

\* a configured session with at most MaxRunsBeforeReset generations, up to its reset
ResetNext ==
    \/ \E fieldId \in {"start-url", "scope"} :
            FocusField(fieldId) /\ UNCHANGED <<genVars, swVars, injVars, pwaVars>>
    \/ \E strategy \in CacheStrategyChoices :
            /\ Len(pwaRuns) < MaxRunsBeforeReset
            /\ SubmitForm(strategy, TRUE)
            /\ UNCHANGED <<genVars, swVars, injVars>>
    \/ \E k \in 1..MaxPwaRuns : PwaContinue(k) /\ UNCHANGED <<genVars, swVars, injVars>>
    \/ Reset /\ UNCHANGED <<genVars, swVars, injVars>>

SpecReset == InitPWA /\ [][ResetNext]_vars

\* ------------------------------------------------------------------------
\* Claims about the emitted worker
\* ------------------------------------------------------------------------

Strategy == FetchBody.name

\* the entry CACHE_NAME holds for url, as a set (empty when there is none)
StoredIn(name, url) ==
    IF name \in CacheNames THEN {e \in caches[name] : e.url = url} ELSE {}

\* C1: if fetching any URL of the precache list fails during install, the promise
\* handed to event.waitUntil rejects and the worker never becomes installed or
\* activated with an incomplete cache.
C1_InstallFailsWhenPrecacheFails ==
    precacheFailed = "fetch" =>
        /\ installPromise # "fulfilled"
        /\ swState \notin {"installed", "activating", "activated"}

\* C2: when the activate handler's waitUntil promise settles, every cache whose name
\* differs from CACHE_NAME has been deleted, and clients.claim() is invoked only
\* after all of those deletions have completed.
C2_ActivateDeletesThenClaims ==
    /\ \A i \in DOMAIN swLog :
          swLog[i].op = "claim" =>
              /\ \A n \in swLog[1].names \ {CACHE_NAME} :
                    \E j \in 1..(i - 1) : swLog[j] = [op |-> "delete", names |-> {n}]
              /\ swLog[i].names \subseteq {CACHE_NAME}
    /\ swState = "activated" =>
          /\ \E i \in DOMAIN swLog : swLog[i].op = "claim"
          /\ CacheNames \subseteq {CACHE_NAME}

C2_Witness ==
    /\ swState = "activated"
    /\ Len(swLog) = 4
    /\ swLog[4].op = "claim"
    /\ swLog[1].names = OldCacheNames \cup {CACHE_NAME}

\* C3: for each of the three strategies the emitted text has exactly one fetch
\* listener, its body is the template of the selected strategy, and no template of
\* another strategy is in the text.
C3_OneFetchListenerOfSelectedStrategy ==
    genSW # << >> =>
        LET L == genSW[1].listeners
            F == {i \in DOMAIN L : L[i].event = "fetch"}
        IN  /\ Cardinality(F) = 1
            /\ \A i \in F : /\ L[i].body.name = genConfig.cacheStrategy
                            /\ L[i].body.offline = genConfig.enableOffline
            /\ \A i \in DOMAIN L :
                  L[i].body.name \in StrategyNames => L[i].body.name = genConfig.cacheStrategy

C3_Witness ==
    /\ genSW # << >>
    /\ genConfig.cacheStrategy = "stale-while-revalidate"
    /\ \E i \in DOMAIN genSW[1].listeners :
          /\ genSW[1].listeners[i].event = "fetch"
          /\ genSW[1].listeners[i].body.name = "stale-while-revalidate"

\* the offline fallback as the claims state it: for a navigation of a worker generated
\* the answer the strategies promise when the network fetch fails: the cached offline
\* page for a navigation with enableOffline, and for every other request the failure
OfflinePageOrFailure(e) ==
    IF FetchBody.offline /\ (e.req.mode = "navigate" \/ e.req.acceptsHtml)
    THEN e.resp = [kind |-> "cached", of |-> OFFLINE_URL]
    ELSE e.resp.kind = "rejected"

\* the result of a failed fetchPromise: what caches.match(OFFLINE_URL) resolved with for
\* a navigation with enableOffline, and for every other request the failure
ResultOfFailedFetch(e) ==
    IF FetchBody.offline /\ (e.req.mode = "navigate" \/ e.req.acceptsHtml)
    THEN e.resp.of = OFFLINE_URL /\ e.resp.kind \in {"cached", "undefined"}
    ELSE e.resp.kind = "rejected"

\* C4: cache-first answers a GET from the cache without a network fetch on a hit; on a
\* miss it returns the network response and writes it to CACHE_NAME only when its
\* status is 200 and its type is basic; when the network fetch fails it returns the
\* cached offline page for a navigation with enableOffline, otherwise the failure.
C4_CacheFirst ==
    (Strategy = "cache-first" /\ ev.pc = "done" /\ ev.req.method = "GET") =>
        /\ "respondWith" \in ev.ops
        /\ ev.hit \in {"hit", "miss"}
        /\ ev.hit = "hit" =>
              /\ ev.resp = [kind |-> "cached", of |-> ev.req.url]
              /\ "fetch" \notin ev.ops
              /\ ev.net = "none"
        /\ (ev.hit = "miss" /\ ev.net # "failed") =>
              /\ ev.resp = [kind |-> "network", of |-> <<ev.net>>]
              /\ "put" \in ev.ops => ev.net = "200-basic"
        /\ (ev.hit = "miss" /\ ev.net = "failed") =>
              /\ OfflinePageOrFailure(ev)
              /\ "put" \notin ev.ops

\* C5: network-first first attempts the network; a 200 response is written to
\* CACHE_NAME and returned; the cache is consulted only when the network fetch fails,
\* a hit being returned; on a miss the cached offline page is returned for a
\* navigation with enableOffline, otherwise the failure.  Written means that the write
\* is outstanding or the entry of the URL is the network response.
C5_NetworkFirst ==
    (Strategy = "network-first" /\ ev.pc # "idle" /\ ev.req.method = "GET") =>
        /\ {"respondWith", "fetch"} \subseteq ev.ops
        /\ "match" \in ev.ops => ev.net = "failed"
        /\ (ev.pc = "done" /\ ev.net # "failed") =>
              /\ ev.resp = [kind |-> "network", of |-> <<ev.net>>]
              /\ ev.net \in {"200-basic", "200-cors"} =>
                    /\ "put" \in ev.ops
                    /\ \/ pendingPuts[ev.req.url] > 0
                       \/ StoredIn(CACHE_NAME, ev.req.url) = {Entry(ev.req.url, "network")}
        /\ (ev.pc = "done" /\ ev.net = "failed") =>
              /\ ev.hit \in {"hit", "miss"}
              /\ ev.hit = "hit" => ev.resp = [kind |-> "cached", of |-> ev.req.url]
              /\ ev.hit = "miss" => OfflinePageOrFailure(ev)

\* what stale-while-revalidate hands to the page
C6_Response ==
    (Strategy = "stale-while-revalidate" /\ ev.pc \in {"net", "done"}
        /\ ev.req.method = "GET") =>
        /\ "fetch" \in ev.ops
        /\ ev.hit = "hit" => ev.resp = [kind |-> "cached", of |-> ev.req.url]
        /\ (ev.hit = "miss" /\ ev.pc = "net") => ev.resp.kind = "pending"
        /\ (ev.hit = "miss" /\ ev.pc = "done" /\ ev.net # "failed") =>
              ev.resp = [kind |-> "network", of |-> <<ev.net>>]
        /\ (ev.hit = "miss" /\ ev.pc = "done" /\ ev.net = "failed") =>
              ResultOfFailedFetch(ev)

\* the network fetch of a GET for url came back with status 200
C6_Got200(url) ==
    /\ Strategy = "stale-while-revalidate"
    /\ ev.pc = "done"
    /\ ev.req.url = url
    /\ ev.net \in {"200-basic", "200-cors"}

\* C6: stale-while-revalidate issues a network fetch for every intercepted GET, cached
\* or not; the page receives the cached response if there is one and otherwise the
\* result of the network fetch; and whichever was returned, a network response with
\* status 200 is eventually stored in CACHE_NAME.
C6_StaleWhileRevalidate ==
    /\ []C6_Response
    /\ \A url \in ReqUrls :
          C6_Got200(url) ~> (StoredIn(CACHE_NAME, url) = {Entry(url, "network")})

\* C7: for a request whose method is not GET the fetch handler returns without
\* calling respondWith and without reading or writing any cache, under each strategy.
C7_NonGetNotIntercepted ==
    (ev.pc # "idle" /\ ev.req.method # "GET") =>
        /\ ev.pc = "done"
        /\ ev.ops = {}
        /\ ev.resp.kind = "default"

C7_Witness ==
    /\ Strategy = "network-first"
    /\ ev.pc = "done"
    /\ ev.req.method = "POST"
    /\ ev.req.mode = "navigate"
    /\ ev.resp.kind = "default"

\* C8: the precache list is, in order, startUrl, startUrl+'index.html',
\* startUrl+'manifest.json', startUrl+path for every ingested file in ingestion order,
\* then startUrl+'offline.html' iff enableOffline; for a folder holding only index.html
\* with offline disabled it is [startUrl, +index.html, +manifest.json, +index.html].
C8_PrecacheListExact ==
    genSW # << >> =>
        LET U == genSW[1].urlsToCache
            s == genConfig.startUrl
            n == Len(genFiles)
        IN  /\ Len(U) = 3 + n + (IF genConfig.enableOffline THEN 1 ELSE 0)
            /\ U[1] = s
            /\ U[2] = s \o <<"index.html">>
            /\ U[3] = s \o <<"manifest.json">>
            /\ \A i \in 1..n : U[3 + i] = s \o genFiles[i].path
            /\ genConfig.enableOffline => U[Len(U)] = s \o <<"offline.html">>
            /\ (genFiles = << [path |-> <<"index.html">>] >> /\ ~genConfig.enableOffline) =>
                  U = << s, s \o <<"index.html">>, s \o <<"manifest.json">>,
                         s \o <<"index.html">> >>

C8_Witness ==
    /\ genSW # << >>
    /\ genFiles = << [path |-> <<"index.html">>] >>
    /\ ~genConfig.enableOffline
    /\ genSW[1].urlsToCache = << <<"/app/">>, <<"/app/", "index.html">>,
                                 <<"/app/", "manifest.json">>, <<"/app/", "index.html">> >>

\* C9: no asynchronous operation of the emitted worker ends in an unhandled
\* rejection: every promise created by the handlers has its failure caught or passed
\* to the promise given to respondWith/waitUntil.
C9_NoUnhandledRejection == unhandled = {}

\* C21: the emitted service worker registers install, activate, fetch and a sync
\* handler for every configuration, and registers push and notificationclick handlers
\* if and only if enableNotifications is set; the notificationclick handler always
\* closes the notification and opens a window at startUrl exactly when the action is
\* 'open' or absent, never for the 'close' action.
C21_ListenersAndNotificationClick ==
    /\ genSW # << >> =>
        LET E == RegisteredEvents(genSW[1])
        IN  /\ \A e \in {"install", "activate", "fetch", "sync"} :
                  Cardinality({ i \in DOMAIN E : E[i] = e }) = 1
            /\ \A e \in {"push", "notificationclick"} :
                  Cardinality({ i \in DOMAIN E : E[i] = e })
                      = IF genConfig.enableNotifications THEN 1 ELSE 0
            /\ \A i \in DOMAIN E :
                  E[i] \in {"install", "activate", "fetch", "sync", "push", "notificationclick"}
    /\ genClick # << >> =>
        /\ genConfig.enableNotifications
        /\ genClick[1].closed
        /\ genClick[1].opened # << >> <=> genClick[1].action \in {"open", ""}
        /\ genClick[1].opened # << >> => genClick[1].opened = << genConfig.startUrl >>
        /\ genClick[1].action = "close" => genClick[1].opened = << >>

\* a click on the notification itself opened the start URL of the app
C21_Witness ==
    /\ genClick # << >>
    /\ genClick[1].action = ""
    /\ genClick[1].closed
    /\ genClick[1].opened = << <<"/app/">> >>
    /\ "push" \in Range(RegisteredEvents(genSW[1]))

\* the worker the generator emits for a second app, ingested from the folder "other"
\* and served under /other/ on the same origin
C23_OtherApp ==
    generateServiceWorker([IdleConfig EXCEPT !.folderName = <<"other">>,
                                             !.startUrl = <<"/other/">>,
                                             !.scope = <<"/other/">>], SwFiles)

\* C23: two bundles generated from folders with different sanitized names and served
\* side by side from one origin, each under its own folder, do not interfere:
\* installing and activating the worker of one app leaves the other app's cache and
\* every entry in it intact, so both apps keep working offline.
C23_OtherAppCacheIntact ==
    [][ C23_OtherApp.CACHE_NAME \in DOMAIN caches =>
            /\ C23_OtherApp.CACHE_NAME \in DOMAIN caches'
            /\ caches'[C23_OtherApp.CACHE_NAME] = caches[C23_OtherApp.CACHE_NAME] ]_vars

\* C24: under cache-first a GET that is answered from the cache also causes the
\* cached entry for that request to be updated from the network in the background:
\* the handler issues the network fetch whose response replaces the entry.
C24_CacheFirstRefreshesOnHit ==
    (Strategy = "cache-first" /\ ev.pc = "done" /\ ev.req.method = "GET"
        /\ ev.hit = "hit") =>
        /\ "fetch" \in ev.ops
        /\ ev.net # "none"

\* C25: under cache-first and network-first, when a network response qualifies for
\* caching, the write of its clone into CACHE_NAME is completed before the response
\* is returned to the page: a page that has received the response finds the entry
\* stored (given the store accepts writes).
C25_StoredBeforeReturned ==
    (Strategy \in {"cache-first", "network-first"} /\ ev.pc = "done"
        /\ ev.resp.kind = "network" /\ "put" \in ev.ops /\ ~quotaExceeded) =>
        /\ pendingPuts[ev.req.url] = 0
        /\ StoredIn(CACHE_NAME, ev.req.url) = {Entry(ev.req.url, "network")}

\* C30: for a worker generated with enableOffline, in every state where the worker
\* is activated and handling fetches, CACHE_NAME holds an entry for the offline page
\* URL, so a navigation whose network fetch fails (and, under network-first, whose
\* cache lookup misses) is answered with the offline page, not an empty response.
C30_OfflinePageAlwaysCached ==
    (FetchBody.offline /\ swState = "activated") =>
        /\ StoredIn(CACHE_NAME, OFFLINE_URL) # {}
        /\ ( /\ ev.pc = "done"
             /\ ev.req.method = "GET"
             /\ isNavigationRequest(ev.req)
             /\ ev.net = "failed"
             /\ ev.hit = "miss" )
           => ev.resp = [kind |-> "cached", of |-> OFFLINE_URL]

\* C13: for every configuration the manifest has an icons array of exactly 8 entries
\* with sizes 72x72, 96x96, 128x128, 144x144, 152x152, 192x192, 384x384, 512x512 in
\* that order; an entry's purpose contains 'maskable' iff its size is >= 192, and
\* every entry's purpose contains 'any'.
C13_ManifestIcons ==
    genManifest # << >> =>
        LET icons == genManifest[1].icons
            S == << 72, 96, 128, 144, 152, 192, 384, 512 >>
        IN  /\ Len(icons) = 8
            /\ \A i \in 1..8 :
                  /\ icons[i].sizes = << S[i], "x", S[i] >>
                  /\ "any" \in Range(icons[i].purpose)
                  /\ ("maskable" \in Range(icons[i].purpose)) <=> (S[i] >= 192)

C13_Witness ==
    /\ genManifest # << >>
    /\ genConfig.scope = <<"/">>
    /\ genConfig.enableOffline
    /\ genManifest[1].icons[6].sizes = << 192, "x", 192 >>
    /\ genManifest[1].icons[6].purpose = <<"any", "maskable">>
    /\ genManifest[1].icons[5].purpose = <<"any">>

\* ------------------------------------------------------------------------
\* Claims about the converter session
\* ------------------------------------------------------------------------

\* C10: after any sequence of earlier uploads, a folder upload whose file list has no
\* entry with relative path exactly index.html, or whose index.html contains neither
\* '<!doctype' nor '<html' case-insensitively, ends in the error state and never in
\* the success state.
C10_UploadWithoutValidRootFails ==
    \A k \in DOMAIN uploads : ~uploads[k].validRoot => uploads[k].pc # "success"

\* C11: for the total size T of an uploaded folder: T > 104857600 fails with the
\* size error before any file is read; 52428800 < T <= 104857600 shows the warning
\* and goes on without a size error; T <= 52428800 gives neither warning nor size
\* error. In particular 100 MiB + 1 fails and 50 MiB + 1 proceeds with a warning.
C11_SizeThresholds ==
    \A k \in DOMAIN uploads :
        LET run == uploads[k]
            T == run.total
        IN  /\ T > 104857600 =>
                  /\ run.pc = "error"
                  /\ run.error = "size"
                  /\ ~run.reads
                  /\ ~run.warned
            /\ (52428800 < T /\ T <= 104857600) =>
                  /\ run.warned
                  /\ run.error # "size"
            /\ T <= 52428800 =>
                  /\ ~run.warned
                  /\ run.error # "size"

C11_Witness ==
    /\ Len(uploads) = 2
    /\ uploads[1].total = 52428801
    /\ uploads[1].warned
    /\ uploads[1].pc = "success"
    /\ uploads[2].total = 104857601
    /\ uploads[2].error = "size"

\* a run of handleFolderUpload ends in the catch block in this step
C12_EndsInError(k) ==
    /\ k \in DOMAIN uploads'
    /\ uploads'[k].pc = "error"
    /\ (k \in DOMAIN uploads => uploads[k].pc # "error")

\* C12: whenever handleFolderUpload ends with a fatal error (size ceiling, missing
\* index.html, failed sniff test, unreadable file), the folder state right after it
\* is empty: folderName, sanitizedName, index, css and js are null, allFiles is empty,
\* totalSize is 0 and next-to-config is disabled.
C12_ErrorLeavesFilesEmpty ==
    [][ \A k \in 1..MaxUploads :
            C12_EndsInError(k) =>
                /\ files'.folderName = << >>
                /\ files'.sanitizedName = << >>
                /\ files'.index = << >>
                /\ files'.css = << >>
                /\ files'.js = << >>
                /\ files'.allFiles = << >>
                /\ files'.totalSize = 0
                /\ nextDisabled' ]_vars

\* an upload that had stored files and texts failed the sniff test, after an earlier
\* upload failed on an unreadable file
C12_Witness ==
    /\ Len(uploads) = 2
    /\ uploads[1].error = "read"
    /\ uploads[2].error = "invalid-html"
    /\ uploads[2].reads
    /\ files.allFiles = << >>
    /\ files.folderName = << >>
    /\ nextDisabled

\* a run of handleFolderUpload ends in success in this step
EndsInSuccess(k) ==
    /\ k \in DOMAIN uploads'
    /\ uploads'[k].pc = "success"
    /\ (k \in DOMAIN uploads => uploads[k].pc # "success")

\* C22: after every successful folder upload, files.css is the first file of the
\* uploaded list, in list order, whose relative path ends in '.css', and files.js is
\* the first whose relative path ends in '.js' and contains neither 'node_modules' nor
\* 'dist'; each is null when the uploaded folder has no such file.
C22_FirstStylesheetAndScript ==
    [][ \A k \in 1..MaxUploads :
            EndsInSuccess(k) =>
                /\ files'.css = uploads'[k].firstCss
                /\ files'.js = uploads'[k].firstJs ]_vars

\* '/' + name + '/'
C26_UrlOf(name) == <<"/">> \o name \o <<"/">>

\* C26: after every successful folder upload in a session where the user has not
\* focused the start-url or scope field since the last reset, both fields equal
\* '/' + sanitizedName + '/' for the sanitized name of the most recently uploaded
\* folder, including when an earlier folder was uploaded before it.
C26_UrlFieldsFollowLatestFolder ==
    [][ \A k \in 1..MaxUploads :
            (EndsInSuccess(k) /\ userModified' \cap {"start-url", "scope"} = {}) =>
                LET latest == uploads'[Len(uploads')].sanitized
                IN  /\ form'.startUrl = C26_UrlOf(latest)
                    /\ form'.scope = C26_UrlOf(latest) ]_vars

\* the session as the constructor leaves it: the fields the claim lists
C27_InitialSession ==
    /\ files = EmptyFiles
    /\ thisConfig = EmptyConfig
    /\ generatedFiles = EmptyGenerated
    /\ userModified \cap {"app-id", "start-url", "scope"} = {}
    /\ nextDisabled
    /\ section = "upload"

\* C27: from any reachable session state, reset() returns the session to its initial
\* state: every field of files is null, empty or 0, config and generatedFiles are
\* empty, the userModified flags of app-id, start-url and scope are cleared, the
\* next-to-config button is disabled and the upload section is the active one.
C27_ResetRestoresInitialSession == [][Reset => C27_InitialSession']_vars

\* a session with an icon, a running generation and artifacts has been reset
C27_Witness ==
    /\ C27_InitialSession
    /\ files.icon = Null
    /\ form = EmptyForm
    /\ Len(pwaRuns) = 1
    /\ pwaRuns[1].discarded
    /\ pwaRuns[1].modes = {"resample"}
    /\ uploads[1].pc = "success"

\* C28: handleFolderUpload, whether it succeeds or fails, leaves files.icon
\* unchanged: an icon accepted by an earlier handleIconUpload is still stored after
\* any later folder upload (and selects resample mode in the next generation).
\* The steps of handleFolderUpload are those that change an upload run and are not
\* the reset.
C28_FolderUploadKeepsIcon ==
    [][ (uploads' # uploads /\ ~Reset) => files'.icon = files.icon ]_vars

\* files is what the ingestion of this one list leaves: its folder name, its total
\* size, one allFiles entry per file and its root index.html
C29_Describes(list) ==
    /\ files.folderName = << list[1].webkitRelativePath[1] >>
    /\ files.totalSize = SumSizes(list)
    /\ files.allFiles = [i \in DOMAIN list |-> FileInfo(list[i])]
    /\ \E i \in DOMAIN list :
          /\ getRelativePath(list[i]) = <<"index.html">>
          /\ files.index = << Stored(list[i]) >>

\* C29: in every reachable state where the next-to-config button is enabled, files
\* describes one completely ingested, validated folder: files.index is non-null and
\* passes the sniff test, and folderName, totalSize and allFiles all belong to that
\* same folder; also while a later folder upload is suspended at an await.
C29_EnabledNextMeansOneFolder ==
    ~nextDisabled =>
        /\ files.index # Null
        /\ validateHTML(files.index[1].content)
        /\ \E list \in FileLists \ { << >> } : C29_Describes(list)

\* ------------------------------------------------------------------------
\* Claims about the HTML injector
\* ------------------------------------------------------------------------

\* how often the token occurs in the document
Count(html, token) == Cardinality({ i \in DOMAIN html : html[i] = token })

\* the document without the occurrences of the token
Without(html, token) == SelectSeq(html, LAMBDA t : t # token)

\* C14: injecting a document that already has a theme-color meta tag adds no second
\* one, and injecting the injector's own output adds no further viewport,
\* theme-color, manifest or Apple tags: inject(inject(h)) differs from inject(h) by
\* exactly one additional service-worker registration script block.
C14_InjectTwice ==
    /\ (injOut # << >> /\ Count(injDoc, ThemeColorMeta) > 0) =>
          Count(injOut[1], ThemeColorMeta) = Count(injDoc, ThemeColorMeta)
    /\ Len(injOut) >= 2 =>
          /\ \A tag \in { ViewportMeta, ThemeColorMeta, ManifestLink, AppleMeta } :
                Count(injOut[2], tag) = Count(injOut[1], tag)
          /\ Without(injOut[2], SwRegistration) = Without(injOut[1], SwRegistration)
          /\ Count(injOut[2], SwRegistration) = Count(injOut[1], SwRegistration) + 1

\* C15: for every root document accepted by ingestion validation the output of
\* injectPWACode contains a viewport meta tag, a theme-color meta tag, a link to
\* manifest.json, the Apple meta tags and the service-worker registration script
\* right before the closing body tag.
C15_InjectedOutputComplete ==
    (injOut # << >> /\ validateHTML(injDoc)) =>
        LET out == injOut[1]
        IN  /\ \A tag \in { ViewportMeta, ThemeColorMeta, ManifestLink, AppleMeta } :
                  Count(out, tag) > 0
            /\ \E i \in 1..(Len(out) - 1) :
                  /\ out[i] = SwRegistration
                  /\ Lower(out[i + 1]) = "</body>"

\* ------------------------------------------------------------------------
\* Claims about generation and packaging
\* ------------------------------------------------------------------------

\* what the archive `zip` has to hold for the ingested files of `f`
KeepsIngested(zip, f) ==
    \A i \in DOMAIN f.allFiles :
        LET file == f.allFiles[i]
        IN  /\ file.path \in DOMAIN zip
            /\ zip[file.path].kind = "text"
            /\ zip[file.path].body =
                    IF file.path = <<"index.html">>
                    THEN injectPWACode(f.index[1].content)
                    ELSE IF f.js # Null /\ file.path = f.js[1].path
                    THEN enhanceJavaScript(f)
                    ELSE file.blob

\* C16: in the archive built by downloadAll every path of an ingested file is
\* present, holding the injected HTML for index.html, the helper-prefixed script for
\* the path of the primary script and the original bytes for every other ingested
\* file, whatever the names of the ingested files are.
C16_ArchiveKeepsIngestedFiles ==
    [][archive' # archive => KeepsIngested(archive'[1], files)]_vars

\* the packaged sw.js of `zip` precaches startUrl + 'offline.html' (startUrl is the
\* first URL of its list)
PrecachesOfflinePage(zip) ==
    LET worker == zip[<<"sw.js">>]
    IN  /\ worker.kind = "worker"
        /\ \E i \in DOMAIN worker.body.urlsToCache :
                worker.body.urlsToCache[i] = worker.body.urlsToCache[1] \o <<"offline.html">>

\* C17: after any sequence of generation runs in a session, the archive built by
\* downloadAll contains offline.html if and only if enableOffline was set in the most
\* recent generation run, which is also exactly when the packaged sw.js precaches
\* startUrl + 'offline.html'.
C17_OfflinePageFollowsLastRun ==
    [][archive' # archive =>
        LET zip == archive'[1]
            has == <<"offline.html">> \in DOMAIN zip
        IN  /\ has <=> pwaRuns[Len(pwaRuns)].enableOffline
            /\ has <=> PrecachesOfflinePage(zip)]_vars

\* the 8 keys icon-SxS.png
IconKeys == { IconFileName(IconSizes[i]) : i \in DOMAIN IconSizes }

\* C18: every generation run that completes leaves generatedFiles.icons with exactly
\* the 8 keys icon-SxS.png for S in {72, 96, 128, 144, 152, 192, 384, 512}, with an
\* uploaded icon image (resample mode) and without one (placeholder mode), and
\* exactly one of the two modes runs per generation.
C18_CompletedRunLeavesEightIcons ==
    \A k \in DOMAIN pwaRuns :
        pwaRuns[k].pc = "done" =>
            /\ pwaRuns[k].iconsAtEnd = IconKeys
            /\ Cardinality(pwaRuns[k].modes) = 1

\* C19: at most one generatePWA run is in progress at any time: while a run is
\* suspended at one of its awaits a second form submission cannot start another run,
\* so the writes of two runs to config and generatedFiles never interleave.
C19_OneRunInProgress ==
    Cardinality({ k \in DOMAIN pwaRuns : InProgress(pwaRuns[k]) }) <= 1

\* ------------------------------------------------------------------------
\* Claims about reset
\* ------------------------------------------------------------------------

\* the step leaves the state of the session as it was
C20_Untouched ==
    UNCHANGED <<files, thisConfig, generatedFiles, nextDisabled, form, section,
                folderStatus>>

\* C20: a reset invoked while a folder upload or a generation run is suspended at an
\* await discards that run: after reset returns, no later step of the in-flight run
\* writes to files, config or generatedFiles or re-enables the next-to-config button,
\* and the session stays in its initial state until a new user action.
C20_ResetDiscardsRunsInFlight ==
    [][/\ \A k \in DOMAIN uploads :
            ( /\ uploads[k].discarded
              /\ <<uploads'[k].pc, uploads'[k].at>> # <<uploads[k].pc, uploads[k].at>> )
            => C20_Untouched
       /\ \A k \in DOMAIN pwaRuns :
            ( /\ pwaRuns[k].discarded
              /\ <<pwaRuns'[k].pc, pwaRuns'[k].i>> # <<pwaRuns[k].pc, pwaRuns[k].i>> )
            => C20_Untouched]_vars

====
